---- MODULE Spec2Model ----
(***************************************************************************)
(* A model of the crawl control plane: the URL normalizer (utils.py), the  *)
(* frontier (crawl_queue.py), the robots policy cache (robots_manager.py), *)
(* the throttle (throttle.py), the orchestration loop (crawler_runner.py)  *)
(* and the tab extractor (tab_traversal.py): the traversal of a page's tab *)
(* groups and the merge of the tab blocks into the page's markdown.        *)
(*                                                                         *)
(* URLs.  A URL is the record urlparse() yields for its text:              *)
(*   scheme, netloc, path, query, fragment.                                *)
(* A path is [rel, segs]: for rel = FALSE the text is the concatenation of *)
(* "/" \o s over the segments s (so <<>> is the empty path, <<"">> is "/", *)
(* <<"a", "">> is "/a/" and <<"", "a">> is "//a"); for rel = TRUE the text *)
(* is the segments joined by "/" and does not start with "/".  Every       *)
(* absolute URL of the model carries an authority (a non-empty netloc), so *)
(* that the text and the record determine each other.  The empty text "",  *)
(* Python's other falsy string value, doubles as None.                     *)
(***************************************************************************)
EXTENDS Integers, Sequences, FiniteSets, TLC

VARIABLES
    parent_url,      \* CrawlQueue._parent_url
    respect_parent,  \* CrawlQueue._respect_parent
    pending,         \* CrawlQueue._pending (deque, head first)
    queued,          \* CrawlQueue._queued
    seen,            \* CrawlQueue._seen
    call,            \* the last frontier call: operation, argument, returned value
    returned,        \* every URL next_batch has returned so far, in order
    accepted,        \* every add that returned True, in order: raw spelling and URL
    submitted,       \* the normalized URLs add was called with before the last call
    ncalls,          \* the number of frontier calls made
    cache,           \* RobotsManager._cache: origin -> RobotsInfo
    locks,           \* RobotsManager._locks: the origins that have a lock
    holder,          \* the caller holding each origin's lock (NoTask: free)
    waiters,         \* the callers suspended in each lock's acquire, first first
    rcall,           \* each caller's allowed() call: where it is, what it returned
    fetches,         \* every robots.txt GET issued: origin, caller, response
    closed,          \* RobotsManager._client has been closed
    delay,           \* ThrottleController.min_seconds and max_seconds
    last_hit,        \* ThrottleController._last_hit: domain -> ready_at
    now,             \* time.monotonic(), in ticks
    tcall,           \* each task's wait_for_turn call: where it is, its wait
    reserved,        \* every reservation made, in the order of the lock
    settings,        \* CrawlOrchestrator.settings: the crawl parameters
    run_pc,          \* where CrawlOrchestrator.run is
    stats,           \* CrawlOrchestrator._stats
    task,            \* the _crawl_single tasks of the batch being gathered
    logged_robots,   \* CrawlOrchestrator._logged_robots, in the order of the log
    fetched,         \* url -> the number of crawler.arun calls made for it
    files,           \* the URLs whose markdown file has been written
    denied,          \* the dequeued URLs whose robots check said allowed=False
    contributed,     \* page url -> the number of URLs its links added
    base_markdown,   \* merge_into_markdown's argument: the page's markdown
    blocks,          \* merge_into_markdown's argument: the tab blocks
    merged,          \* what merge_into_markdown returned, once it has
    tab_settings,    \* TabTraversalManager._settings: the ceilings of a traversal
    dom,             \* the page of the session: its tab groups and how they answer
    walk,            \* _collect_tab_content: its loop variables and its captures
    conv             \* collect_markdown_blocks: its loop over the captures

rvars == <<cache, locks, holder, waiters, rcall, fetches, closed>>

vars ==
    <<parent_url, respect_parent, pending, queued, seen, call, returned, accepted,
      submitted, ncalls, cache, locks, holder, waiters, rcall, fetches, closed,
      delay, last_hit, now, tcall, reserved, settings, run_pc, stats, task,
      logged_robots, fetched, files, denied, contributed, base_markdown, blocks,
      merged, tab_settings, dom, walk, conv>>

ovars ==
    <<settings, run_pc, stats, task, logged_robots, fetched, files, denied,
      contributed>>

tvars == <<delay, last_hit, now, tcall, reserved>>

pvars == <<tab_settings, dom, walk, conv>>

mvars == <<base_markdown, blocks, merged, pvars>>

qvars == <<parent_url, respect_parent, pending, queued, seen,
           call, returned, accepted, submitted, ncalls>>

-----------------------------------------------------------------------------
(* Sequences and paths                                                     *)

Range(s) == {s[i] : i \in DOMAIN s}

Last(s) == s[Len(s)]

Front(s) == SubSeq(s, 1, Len(s) - 1)

NoDuplicates(s) == \A i, j \in DOMAIN s : i # j => s[i] # s[j]

IsPrefix(s, t) == Len(s) <= Len(t) /\ SubSeq(t, 1, Len(s)) = s

Path(rel, segs) == [rel |-> rel, segs |-> segs]

EmptyPath == Path(FALSE, <<>>)

RootPath == Path(FALSE, <<"">>)

\* str.split("/") of a path's text
SplitSlash(p) ==
    IF p.rel THEN p.segs
    ELSE IF p.segs = <<>> THEN <<"">> ELSE <<"">> \o p.segs

\* the path whose text is "/".join(parts), parts being non-empty
JoinSlash(parts) ==
    IF parts = <<"">> THEN EmptyPath
    ELSE IF parts[1] = "" THEN Path(FALSE, Tail(parts))
    ELSE Path(TRUE, parts)

\* text.startswith("/") and text.endswith("/")
StartsWithSlash(p) == ~p.rel /\ p.segs # <<>>

EndsWithSlash(p) == p.segs # <<>> /\ Last(p.segs) = "" /\ (p.rel => Len(p.segs) > 1)

\* str.lower() on the schemes and hosts of the model
Lower(s) ==
    CASE s = "HTTPS" -> "https"
      [] s = "Http" -> "http"
      [] s = "EX.com" -> "ex.com"
      [] s = "Ex.Com" -> "ex.com"
      [] OTHER -> s

URL(scheme, netloc, path, query, fragment) ==
    [scheme |-> scheme, netloc |-> netloc, path |-> path,
     query |-> query, fragment |-> fragment]

\* the empty text, which is also how None is written
NoURL == URL("", "", EmptyPath, "", "")

\* a segment up to its first ";", for the segments of the model: "v;1" is the
\* segment v with the parameters 1
BeforeParams(seg) == IF seg = "v;1" THEN "v" ELSE seg

\* urllib.parse.urlparse: the parameters of the path's last segment are split
\* from the path (the callers in utils.py never read them)
urlparse(url) ==
    IF url.path.segs = <<>> THEN url
    ELSE [url EXCEPT !.path.segs = Front(@) \o <<BeforeParams(Last(@))>>]

\* urlunparse((scheme, netloc, path, "", query, fragment)) for a URL with an
\* authority: a non-empty path that does not start with "/" is given one
urlunparse(scheme, netloc, path, query, fragment) ==
    URL(scheme, netloc,
        IF path.rel THEN Path(FALSE, path.segs) ELSE path,
        query, fragment)

\* posixpath.normpath of a path that starts with "/": the components that
\* survive, ".." popping the one before it and vanishing at the root
RECURSIVE NormComps(_, _)
NormComps(comps, acc) ==
    IF comps = <<>> THEN acc
    ELSE NormComps(Tail(comps),
                   IF Head(comps) \in {"", "."} THEN acc
                   ELSE IF Head(comps) # ".." THEN Append(acc, Head(comps))
                   ELSE IF acc # <<>> THEN Front(acc)
                   ELSE acc)

\* posixpath.normpath keeps exactly two leading slashes ("//a" but not "///a")
InitialSlashes(p) ==
    IF Len(p.segs) >= 2 /\ p.segs[1] = "" /\ ~(Len(p.segs) >= 3 /\ p.segs[2] = "")
    THEN 2 ELSE 1

\* "/" * initial_slashes + "/".join(comps)
NormJoin(comps, lead) ==
    IF comps = <<>> THEN Path(FALSE, lead \o <<"">>) ELSE Path(FALSE, lead \o comps)

normpath(p) ==
    NormJoin(NormComps(p.segs, <<>>),
             IF InitialSlashes(p) = 2 THEN <<"">> ELSE <<>>)

\* utils.py line 16: a path that does not start with "/" is given one
WithLeadingSlash(path) ==
    IF ~StartsWithSlash(path) THEN Path(FALSE, path.segs) ELSE path

\* utils.py lines 19-20: the trailing slash normpath dropped is put back
KeepTrailingSlash(path, normalized) ==
    IF EndsWithSlash(path) /\ ~EndsWithSlash(normalized)
    THEN Path(FALSE, Append(normalized.segs, ""))
    ELSE normalized

\* utils.py lines 18-23: normpath of a path that starts with "/"
NormalizeSlashed(path) == KeepTrailingSlash(path, normpath(path))

\* utils._normalized_path
_normalized_path(path) ==
    IF path.segs = <<>> THEN RootPath
    ELSE NormalizeSlashed(WithLeadingSlash(path))

\* urljoin's dot-segment resolution over the split segments
RECURSIVE ResolveSegments(_, _)
ResolveSegments(segments, resolved) ==
    IF segments = <<>> THEN resolved
    ELSE ResolveSegments(Tail(segments),
                         IF Head(segments) = ".."
                         THEN (IF resolved = <<>> THEN resolved ELSE Front(resolved))
                         ELSE IF Head(segments) = "." THEN resolved
                         ELSE Append(resolved, Head(segments)))

\* segments[1:-1] = filter(None, segments[1:-1])
FilterInner(segments) ==
    IF Len(segments) <= 2 THEN segments
    ELSE <<segments[1]>>
         \o SelectSeq(SubSeq(segments, 2, Len(segments) - 1), LAMBDA s : s # "")
         \o <<Last(segments)>>

\* urljoin: the base path's segments without its last, non-directory one
BaseParts(bparts) == IF Last(bparts) # "" THEN Front(bparts) ELSE bparts

\* urljoin: the segments to resolve, the base path's being dropped when the
\* reference starts at the root
JoinSegments(base_path, path) ==
    IF StartsWithSlash(path) THEN SplitSlash(path)
    ELSE FilterInner(BaseParts(SplitSlash(base_path)) \o SplitSlash(path))

\* urljoin: a reference ending in "." or ".." names a directory
ResolvedPath(segments) ==
    IF Last(segments) \in {".", ".."}
    THEN Append(ResolveSegments(segments, <<>>), "")
    ELSE ResolveSegments(segments, <<>>)

\* urljoin: "/".join(resolved_path) or "/"
JoinedPath(resolved_path) ==
    IF resolved_path = <<>> \/ resolved_path = <<"">>
    THEN RootPath ELSE JoinSlash(resolved_path)

\* urllib.parse.urljoin(base, url) for a reference url without a scheme and a
\* base that has a scheme in uses_relative and an authority
urljoin(base, url) ==
    IF base = NoURL THEN url
    ELSE IF url = NoURL THEN base
    ELSE IF url.netloc # "" THEN
        urlunparse(base.scheme, url.netloc, url.path, url.query, url.fragment)
    ELSE IF url.path.segs = <<>> THEN
        urlunparse(base.scheme, base.netloc, base.path,
                   IF url.query = "" THEN base.query ELSE url.query, url.fragment)
    ELSE
        urlunparse(base.scheme, base.netloc,
                   JoinedPath(ResolvedPath(JoinSegments(base.path, url.path))),
                   url.query, url.fragment)

\* utils.py lines 42-56: the scheme test and the rebuilt URL
NormalizeParsed(parsed) ==
    IF Lower(parsed.scheme) \notin {"http", "https"} THEN NoURL
    ELSE urlunparse(Lower(parsed.scheme), Lower(parsed.netloc),
                    _normalized_path(parsed.path), parsed.query, "")

\* utils.normalize_url: NoURL stands for the None it returns
normalize_url(url, base_url) ==
    IF url = NoURL THEN NoURL
    ELSE IF url.scheme = "" /\ base_url = NoURL THEN NoURL
    ELSE NormalizeParsed(urlparse(IF url.scheme = "" THEN urljoin(base_url, url) ELSE url))

\* utils.domain_key
domain_key(url) == URL(Lower(url.scheme), Lower(url.netloc), EmptyPath, "", "")

\* posixpath.dirname(path.rstrip("/")), then the leading and trailing slash
\* derive_parent_url gives it
RECURSIVE RStripSlash(_)
RStripSlash(segs) ==
    IF segs # <<>> /\ Last(segs) = "" THEN RStripSlash(Front(segs)) ELSE segs

\* posixpath.dirname of a stripped path: all but its last segment
Dirname(stripped) == IF stripped = <<>> THEN <<>> ELSE Front(stripped)

\* the parent path without the trailing slash derive_parent_url appends
SlashedParent_no_trailing_slash(head) ==
    IF head = <<>> THEN RootPath ELSE Path(FALSE, head)

\* utils.py lines 64-68: dirname's head, with a leading and a trailing slash
SlashedParent(head) ==
    IF head = <<>> THEN RootPath
    ELSE IF \A i \in DOMAIN head : head[i] = ""
         THEN Path(FALSE, head \o <<"", "">>)
         ELSE Path(FALSE, Append(RStripSlash(head), ""))

ParentPath(path) == SlashedParent(Dirname(RStripSlash(path.segs)))

\* utils.derive_parent_url
derive_parent_url(url) ==
    urlunparse(Lower(url.scheme), Lower(url.netloc),
               ParentPath(_normalized_path(urlparse(url).path)), "", "")

\* a same-origin test where the same-parent test belongs
shares_same_parent_origin_only(url, parent) ==
    IF parent = NoURL THEN TRUE
    ELSE domain_key(url) = domain_key(parent)

\* utils.shares_same_parent
shares_same_parent(url, parent) ==
    IF parent = NoURL THEN TRUE
    ELSE derive_parent_url(url) = parent

\* segs starts with the segments of prefix (text.startswith on whole segments)
SegsStartWith(segs, prefix) ==
    Len(prefix) <= Len(segs) /\ SubSeq(segs, 1, Len(prefix)) = prefix

\* utils.py lines 99-105: the path test of is_within_scope
WithinPath(candidate_path, scope_path) ==
    IF scope_path = RootPath THEN TRUE
    ELSE IF EndsWithSlash(scope_path)
         THEN /\ SegsStartWith(candidate_path.segs, Front(scope_path.segs))
              /\ Len(candidate_path.segs) > Len(scope_path.segs) - 1
         ELSE \/ candidate_path = scope_path
              \/ /\ SegsStartWith(candidate_path.segs, scope_path.segs)
                 /\ Len(candidate_path.segs) > Len(scope_path.segs)

\* utils.is_within_scope
is_within_scope(url, scope) ==
    IF scope = NoURL THEN TRUE
    ELSE IF url.scheme = "" \/ url.netloc = "" THEN FALSE
    ELSE IF Lower(url.scheme) # Lower(scope.scheme) THEN FALSE
    ELSE IF Lower(url.netloc) # Lower(scope.netloc) THEN FALSE
    ELSE WithinPath(_normalized_path(urlparse(url).path),
                    _normalized_path(urlparse(scope).path))

\* config_loader.py lines 141-142: normalized or self.seed_url
OrElse(normalized, seed_url) == IF normalized # NoURL THEN normalized ELSE seed_url

\* config_loader.CrawlParameters.scope_url
scope_url(seed_url, scope_mode) ==
    IF scope_mode = "seed" THEN OrElse(normalize_url(seed_url, NoURL), seed_url)
    ELSE derive_parent_url(seed_url)

-----------------------------------------------------------------------------
(* The frontier: crawl_queue.CrawlQueue                                    *)

\* the three collections of a CrawlQueue, as one value
Frontier(p, q, s) == [pending |-> p, queued |-> q, seen |-> s]

\* CrawlQueue.__init__
EmptyFrontier == Frontier(<<>>, {}, {})

\* crawl_queue.py line 23: the parent constraint of add
OutsideParent(normalized, parent, respect) ==
    respect /\ ~shares_same_parent(normalized, parent)

\* the dedup test without its look at the pending URLs
AlreadyKnown_seen_only(f, normalized) == normalized \in f.seen

\* the dedup test without its look at the URLs already dequeued
AlreadyKnown_queued_only(f, normalized) == normalized \in f.queued

\* crawl_queue.py line 25: the dedup test of add
AlreadyKnown(f, normalized) ==
    normalized \in f.queued \/ normalized \in f.seen

\* add putting the url at the head of the deque (appendleft)
AddNormalized_appendleft(f, url, normalized, parent, respect) ==
    IF normalized = NoURL THEN [f |-> f, ret |-> FALSE, new |-> <<>>]
    ELSE IF OutsideParent(normalized, parent, respect)
         THEN [f |-> f, ret |-> FALSE, new |-> <<>>]
    ELSE IF AlreadyKnown(f, normalized) THEN [f |-> f, ret |-> FALSE, new |-> <<>>]
    ELSE [f |-> Frontier(<<normalized>> \o f.pending,
                         f.queued \cup {normalized}, f.seen),
          ret |-> TRUE,
          new |-> <<[raw |-> url, url |-> normalized]>>]

\* crawl_queue.py lines 21-29: add, once the url is normalized; `new` is what
\* the call appended
AddNormalized(f, url, normalized, parent, respect) ==
    IF normalized = NoURL THEN [f |-> f, ret |-> FALSE, new |-> <<>>]
    ELSE IF OutsideParent(normalized, parent, respect)
         THEN [f |-> f, ret |-> FALSE, new |-> <<>>]
    ELSE IF AlreadyKnown(f, normalized) THEN [f |-> f, ret |-> FALSE, new |-> <<>>]
    ELSE [f |-> Frontier(Append(f.pending, normalized),
                         f.queued \cup {normalized}, f.seen),
          ret |-> TRUE,
          new |-> <<[raw |-> url, url |-> normalized]>>]

\* CrawlQueue.add: the frontier after the call and the value returned
add(f, url, base_url, parent, respect) ==
    AddNormalized(f, url, normalize_url(url, base_url), parent, respect)

\* crawl_queue.py lines 34-35: extend counts the add calls that returned True
Counted(acc, r) ==
    [f |-> r.f,
     added |-> acc.added + (IF r.ret THEN 1 ELSE 0),
     new |-> acc.new \o r.new]

\* CrawlQueue.extend: add each url in turn
RECURSIVE extend(_, _, _, _, _)
extend(acc, urls, base_url, parent, respect) ==
    IF urls = <<>> THEN acc
    ELSE extend(Counted(acc, add(acc.f, Head(urls), base_url, parent, respect)),
                Tail(urls), base_url, parent, respect)

\* a turn of the loop that does not record the url as seen
PopHead_not_seen(f) ==
    Frontier(Tail(f.pending), f.queued \ {Head(f.pending)}, f.seen)

\* a turn of the loop that leaves the url among the queued
PopHead_still_queued(f) ==
    Frontier(Tail(f.pending), f.queued, f.seen \cup {Head(f.pending)})

\* crawl_queue.py lines 41-44: one turn of next_batch's loop on the head url
PopHead(f) ==
    Frontier(Tail(f.pending), f.queued \ {Head(f.pending)},
             f.seen \cup {Head(f.pending)})

\* CrawlQueue.next_batch: the frontier after the call and the batch returned
RECURSIVE next_batch(_, _, _)
next_batch(f, size, batch) ==
    IF f.pending # <<>> /\ Len(batch) < size
    THEN next_batch(PopHead(f), size, Append(batch, Head(f.pending)))
    ELSE [f |-> f, batch |-> batch]

-----------------------------------------------------------------------------
(* The robots policy cache: robots_manager.RobotsManager                   *)
(*                                                                         *)
(* The callers are coroutines of one event loop: a caller runs alone from  *)
(* one suspension point to the next.  allowed() suspends in the lock's     *)
(* acquire, when the lock is taken, and in the GET of _download.           *)

MaxTasks == 2

\* the coroutines that call allowed(): 0 is the coordinating path (run), the
\* others are the per-URL tasks of a batch
Callers == 0..MaxTasks

NoTask == 0 - 1

\* robots.txt bodies: what the server may send, by name
TextPrivate == "User-agent: *|Disallow: /private"

TextDelay == "User-agent: *|Crawl-delay: 2|Request-rate: 1/3|Disallow: /docs/setup"

\* what RobotFileParser.parse keeps of a body, all directives being for "*":
\* the paths disallowed, the Crawl-delay and the Request-rate (<<>> for None)
ParseRobots(text) ==
    CASE text = TextPrivate ->
             [disallow |-> {<<"private">>}, delay |-> <<>>, rate |-> <<>>]
      [] text = TextDelay ->
             [disallow |-> {<<"docs", "setup">>}, delay |-> <<2>>,
              rate |-> <<[requests |-> 1, seconds |-> 3]>>]
      [] OTHER -> [disallow |-> {}, delay |-> <<>>, rate |-> <<>>]

\* what _client.get may come to: an exception, or a response with a status
\* and a body
Responses ==
    { [kind |-> "exception", status |-> 0, text |-> ""],
      [kind |-> "response", status |-> 200, text |-> ""],
      [kind |-> "response", status |-> 200, text |-> TextPrivate],
      [kind |-> "response", status |-> 200, text |-> TextDelay],
      [kind |-> "response", status |-> 404, text |-> TextPrivate] }

\* a body taken from any response, whatever its status
ResponseText_any_status(resp) == resp.text

\* robots_manager.py lines 72-78: the text _download keeps of a response
ResponseText(resp) ==
    IF resp.kind = "response" /\ resp.status = 200 THEN resp.text ELSE ""

\* a or b, for optional numbers: the value, 0 for None
OrZero(opt) == IF opt = <<>> THEN 0 ELSE opt[1]

Max(a, b) == IF a >= b THEN a ELSE b

\* robots_manager.py lines 101-106: the delay a request rate asks for
RateDelay(rate) ==
    IF rate # <<>> /\ rate[1].requests # 0
    THEN rate[1].seconds \div Max(rate[1].requests, 1)
    ELSE 0

\* RobotsManager._extract_delay
_extract_delay(parser) == Max(OrZero(parser.delay), RateDelay(parser.rate))

\* RobotsManager._build_robots_url
_build_robots_url(origin) ==
    urlunparse(IF origin.scheme # "" THEN origin.scheme ELSE "https",
               origin.netloc, Path(FALSE, <<"robots.txt">>), "", "")

\* robots_manager.py lines 80-94: the RobotsInfo made of a text
InfoOf(robots_url, text) ==
    [url |-> robots_url, parser |-> ParseRobots(text), raw_text |-> text,
     crawl_delay |-> _extract_delay(ParseRobots(text))]

\* RobotsManager._download, given what the GET came to
_download(robots_url, resp) == InfoOf(robots_url, ResponseText(resp))

\* a is a prefix of b, for the segments of the model
StrPrefix(a, b) ==
    \/ a = b
    \/ a = ""
    \/ <<a, b>> \in {<<"docs", "docsx">>, <<"private", "privatex">>}

\* the text of the rule path is a prefix of the text of the URL's path
RuleMatches(rule, segs) ==
    /\ Len(rule) <= Len(segs)
    /\ \A i \in 1..(Len(rule) - 1) : rule[i] = segs[i]
    /\ StrPrefix(rule[Len(rule)], segs[Len(rule)])

\* RobotFileParser.can_fetch: the path "/" stands for an empty one
ParserCanFetch(parser, path) ==
    ~\E rule \in parser.disallow :
        RuleMatches(rule, IF path.segs = <<>> THEN <<"">> ELSE path.segs)

\* RobotsInfo.can_fetch
can_fetch(info, target_url) == ParserCanFetch(info.parser, target_url.path)

\* robots_manager.py line 55: what allowed returns for a RobotsInfo
Verdict(info, url) == [allowed |-> can_fetch(info, url), info |-> info]

NoVerdict == [allowed |-> FALSE, info |-> InfoOf(NoURL, "")]

NotCalling ==
    [pc |-> "idle", url |-> NoURL, waited |-> FALSE, result |-> NoVerdict, calls |-> 0]

\* RobotsManager.__init__
RobotsInit ==
    /\ cache = <<>>
    /\ locks = {}
    /\ holder = [o \in {} |-> NoTask]
    /\ waiters = [o \in {} |-> <<>>]
    /\ rcall = [t \in Callers |-> NotCalling]
    /\ fetches = <<>>
    /\ closed = FALSE

\* dict[key] = value
Put(dict, key, value) ==
    [k \in DOMAIN dict \cup {key} |-> IF k = key THEN value ELSE dict[k]]

\* dict.setdefault(key, value)
SetDefault(dict, key, value) ==
    IF key \in DOMAIN dict THEN dict ELSE Put(dict, key, value)

\* the second cache test dropped: whoever gets the lock downloads
CachedInLock_never(origin) == FALSE

\* robots_manager.py line 64: the cache test made while holding the lock
CachedInLock(origin) == origin \in DOMAIN cache

\* robots_manager.py lines 59-60 and 55: the origin is cached, allowed returns
AnswerFromCache(t, url, waited, calls) ==
    /\ rcall' = [rcall EXCEPT ![t] = [pc |-> "done", url |-> url, waited |-> waited,
                                      result |-> Verdict(cache[domain_key(url)], url),
                                      calls |-> calls]]
    /\ UNCHANGED <<cache, fetches>>

\* robots_manager.py lines 66-67 and 74: the GET is sent, the caller suspends
SendGet(t, url, waited, calls) ==
    /\ rcall' = [rcall EXCEPT ![t] = [pc |-> "fetching", url |-> url,
                                      waited |-> waited, result |-> NoVerdict,
                                      calls |-> calls]]
    /\ fetches' = Append(fetches, [origin |-> domain_key(url), by |-> t,
                                   resp |-> <<>>])
    /\ UNCHANGED cache

\* robots_manager.py lines 63-67: with the lock held, answer from the cache or
\* download; the lock is released when the answer comes from the cache
InsideLock(t, url, waited, calls) ==
    IF CachedInLock(domain_key(url))
    THEN /\ AnswerFromCache(t, url, waited, calls)
         /\ holder' = Put(holder, domain_key(url), NoTask)
    ELSE /\ SendGet(t, url, waited, calls)
         /\ holder' = Put(holder, domain_key(url), t)

\* asyncio.Lock.acquire returns at once when the lock is free and nobody waits
LockIsFree(origin) ==
    origin \notin locks \/ (holder[origin] = NoTask /\ waiters[origin] = <<>>)

\* RobotsManager.allowed, from the call to its first suspension or its return
AllowedCall(t, url) ==
    /\ rcall[t].pc \in {"idle", "done"}
    /\ UNCHANGED closed
    /\ IF domain_key(url) \in DOMAIN cache
       THEN /\ AnswerFromCache(t, url, FALSE, rcall[t].calls + 1)
            /\ UNCHANGED <<locks, holder, waiters>>
       ELSE /\ locks' = locks \cup {domain_key(url)}
            /\ IF LockIsFree(domain_key(url))
               THEN /\ InsideLock(t, url, FALSE, rcall[t].calls + 1)
                    /\ waiters' = SetDefault(waiters, domain_key(url), <<>>)
               ELSE /\ waiters' = Put(waiters, domain_key(url),
                                      Append(waiters[domain_key(url)], t))
                    /\ rcall' = [rcall EXCEPT ![t] =
                                    [pc |-> "waiting", url |-> url,
                                     waited |-> TRUE, result |-> NoVerdict,
                                     calls |-> rcall[t].calls + 1]]
                    /\ UNCHANGED <<cache, holder, fetches>>

\* the first waiter of a released lock resumes inside the lock
LockGranted(t) ==
    /\ rcall[t].pc = "waiting"
    /\ holder[domain_key(rcall[t].url)] = NoTask
    /\ Head(waiters[domain_key(rcall[t].url)]) = t
    /\ waiters' = Put(waiters, domain_key(rcall[t].url),
                      Tail(waiters[domain_key(rcall[t].url)]))
    /\ InsideLock(t, rcall[t].url, TRUE, rcall[t].calls)
    /\ UNCHANGED <<locks, closed, qvars, tvars, mvars, ovars>>

\* the fetch record of caller t's pending GET, completed with its response
Answered(t, resp) ==
    [i \in DOMAIN fetches |->
        IF fetches[i].by = t /\ fetches[i].resp = <<>>
        THEN [fetches[i] EXCEPT !.resp = <<resp>>] ELSE fetches[i]]

\* robots_manager.py lines 67-69 and 55: the GET ends, the info is cached,
\* the lock is released and allowed returns
GetEnds(t, resp) ==
    /\ rcall[t].pc = "fetching"
    /\ \E info \in {_download(_build_robots_url(domain_key(rcall[t].url)), resp)} :
           /\ cache' = Put(cache, domain_key(rcall[t].url), info)
           /\ rcall' = [rcall EXCEPT ![t].pc = "done",
                                     ![t].result = Verdict(info, rcall[t].url)]
    /\ holder' = Put(holder, domain_key(rcall[t].url), NoTask)
    /\ fetches' = Answered(t, resp)
    /\ UNCHANGED <<locks, waiters, closed, qvars, tvars, mvars, ovars>>

-----------------------------------------------------------------------------
(* The per-domain throttle: throttle.ThrottleController                      *)
(*                                                                         *)
(* Times are whole ticks of the monotonic clock.  Nothing suspends inside  *)
(* the lock of wait_for_turn, so a reservation is one step of the event    *)
(* loop; the sleep that follows it is the only suspension.                 *)

\* the tasks of a batch
Tasks == 1..MaxTasks

\* utils.choose_random_delay: the values random.uniform may return
choose_random_delay(min_seconds, max_seconds) ==
    min_seconds..Max(max_seconds, min_seconds)

\* throttle.py line 34: the delay that must separate two hits
EnforcedDelay(base_delay, robots_delay) == Max(base_delay, OrZero(robots_delay))

\* the wait without its floor: what is left of the enforced delay
WaitAfter_no_floor(elapsed, enforced_delay, base_delay) == enforced_delay - elapsed

\* the wait taken from the jitter alone, the reservation stored being ignored
WaitAfter_jitter_only(elapsed, enforced_delay, base_delay) == base_delay

\* throttle.py lines 44-45: the wait of a domain that was hit before
WaitAfter(elapsed, enforced_delay, base_delay) ==
    Max(enforced_delay - elapsed, base_delay)

\* a first hit that waits for the jitter alone, whatever the robots ask
WaitFor_first_base(domain, enforced_delay, base_delay) ==
    IF domain \notin DOMAIN last_hit THEN base_delay
    ELSE WaitAfter(now - last_hit[domain], enforced_delay, base_delay)

\* throttle.py lines 38-45: the wait of a reservation
WaitFor(domain, enforced_delay, base_delay) ==
    IF domain \notin DOMAIN last_hit THEN enforced_delay
    ELSE WaitAfter(now - last_hit[domain], enforced_delay, base_delay)

\* config_loader.py lines 21-22: the delays of a configuration that names none
DefaultDelay == [min_seconds |-> 1, max_seconds |-> 3]

NotWaiting == [pc |-> "idle", wait_for |-> 0, wake |-> 0]

\* ThrottleController.__init__
ThrottleInit(delays) ==
    /\ delay = delays
    /\ last_hit = <<>>
    /\ now = 0
    /\ tcall = [t \in Tasks |-> NotWaiting]
    /\ reserved = <<>>

\* throttle.py lines 47-52: the slot is stored, the task sleeps if it must
Reserve(t, url, base_delay, robots_delay, wait_for) ==
    /\ last_hit' = Put(last_hit, domain_key(url), now + wait_for)
    /\ tcall' = [tcall EXCEPT ![t] =
                    [pc |-> IF wait_for > 0 THEN "sleeping" ELSE "done",
                     wait_for |-> wait_for,
                     wake |-> IF wait_for > 0 THEN now + wait_for ELSE 0]]
    /\ reserved' = Append(reserved,
                          [domain |-> domain_key(url), ready_at |-> now + wait_for,
                           wait_for |-> wait_for, base_delay |-> base_delay,
                           robots_delay |-> OrZero(robots_delay)])
    /\ UNCHANGED <<delay, now>>

\* the sleep moved inside the `async with`: no reservation is made while a
\* caller sleeps with the lock
wait_for_turn_sleep_in_lock(t, url, robots_delay) ==
    /\ tcall[t].pc \in {"idle", "done"}
    /\ \A other \in Tasks : tcall[other].pc # "sleeping"
    /\ \E base_delay \in choose_random_delay(delay.min_seconds, delay.max_seconds) :
           Reserve(t, url, base_delay, robots_delay,
                   WaitFor(domain_key(url),
                           EnforcedDelay(base_delay, robots_delay), base_delay))

\* ThrottleController.wait_for_turn, from the call to its sleep or its return
wait_for_turn(t, url, robots_delay) ==
    /\ tcall[t].pc \in {"idle", "done"}
    /\ \E base_delay \in choose_random_delay(delay.min_seconds, delay.max_seconds) :
           Reserve(t, url, base_delay, robots_delay,
                   WaitFor(domain_key(url),
                           EnforcedDelay(base_delay, robots_delay), base_delay))

\* throttle.py lines 50-52: asyncio.sleep ends, not before its time, and
\* wait_for_turn returns
SleepEnds(t) ==
    /\ tcall[t].pc = "sleeping"
    /\ now >= tcall[t].wake
    /\ tcall' = [tcall EXCEPT ![t].pc = "done", ![t].wake = 0]
    /\ UNCHANGED <<delay, last_hit, now, reserved, qvars, rvars, ovars, mvars>>

-----------------------------------------------------------------------------
(* The crawl: crawler_runner.CrawlOrchestrator                             *)
(*                                                                         *)
(* run and the _crawl_single tasks it gathers are coroutines of one event  *)
(* loop; each action below runs one of them from one suspension to the     *)
(* next.  The orchestrator hands the frontier settings.crawl.scope_url     *)
(* under the keyword scope_url; the frontier keeps it as its parent_url.   *)
(* The arithmetic of the throttle is left to the throttle's own            *)
(* specification: here wait_for_turn is a suspension that ends.            *)

\* the batch size taken from the concurrency alone
Min_first(a, b) == a

Min(a, b) == IF a <= b THEN a ELSE b

\* _collect_tab_content before it is called
NotWalking ==
    [pc |-> "idle", group_index |-> 0, tab_index |-> 0, group_title |-> "",
     total_collected |-> 0, captures |-> <<>>]

\* collect_markdown_blocks before it is called: the index of the next capture,
\* the digest keys seen, the blocks, and what became of each capture
NotConverting == [pc |-> "idle", next |-> 1, seen |-> {}, blocks |-> <<>>, fate |-> <<>>]

\* no page is traversed
TabsUnused ==
    /\ tab_settings = [max_groups |-> 1, max_tabs_per_group |-> 1, max_total_tabs |-> 1]
    /\ dom = [attach |-> "ok", settle |-> "ok", tablists |-> "ok", groups |-> <<>>]
    /\ walk = NotWalking
    /\ conv = NotConverting

\* no tab blocks are merged
MergeUnused ==
    /\ base_markdown = <<>>
    /\ blocks = <<>>
    /\ merged = <<>>
    /\ TabsUnused

\* CrawlStats
NoStats == [saved_pages |-> 0, skipped_by_robots |-> 0, failures |-> 0, attempted |-> 0]

\* what a _crawl_single task comes to: DiscoveredLinks or an exception
DiscoveredLinks(page_url, hrefs) ==
    [kind |-> "links", page_url |-> page_url, hrefs |-> hrefs]

Raised == [kind |-> "exception", page_url |-> NoURL, hrefs |-> <<>>]

NoOutcome == [kind |-> "none", page_url |-> NoURL, hrefs |-> <<>>]

\* a task: where it is, its url, what it came to, its browser session (none,
\* open, killed, or kill_failed when kill_session raised) and the counters
\* that were raised for its url
NotStarted ==
    [pc |-> "none", url |-> NoURL, outcome |-> NoOutcome, session |-> "none",
     counted |-> <<>>]

\* the orchestrator is not part of a specification
RunUnused ==
    /\ settings = [seed_url |-> NoURL, scope_mode |-> "parent",
                   respect_parent_path |-> TRUE, concurrency |-> 1, max_pages |-> 1,
                   tab_enabled |-> FALSE]
    /\ run_pc = "unused"
    /\ stats = NoStats
    /\ task = [t \in Tasks |-> NotStarted]
    /\ logged_robots = <<>>
    /\ fetched = <<>>
    /\ files = {}
    /\ denied = {}
    /\ contributed = <<>>

\* CrawlOrchestrator.__init__
OrchestratorInit(crawl) ==
    /\ settings = crawl
    /\ parent_url = scope_url(crawl.seed_url, crawl.scope_mode)
    /\ respect_parent = crawl.respect_parent_path
    /\ pending = <<>>
    /\ queued = {}
    /\ seen = {}
    /\ RobotsInit
    /\ ThrottleInit(DefaultDelay)
    /\ run_pc = "seeding"
    /\ stats = NoStats
    /\ task = [t \in Tasks |-> NotStarted]
    /\ logged_robots = <<>>
    /\ fetched = <<>>
    /\ files = {}
    /\ denied = {}
    /\ contributed = <<>>
    /\ MergeUnused

\* crawler_runner.py lines 169-170: the origin a RobotsInfo is logged under
LoggedOrigin(info) ==
    domain_key(IF info.url # NoURL THEN info.url ELSE settings.seed_url)

\* the robots text logged at every call, without the test of the set
LoggedWith_every_call(info) == Append(logged_robots, LoggedOrigin(info))

\* CrawlOrchestrator._log_robots_info: the origins logged after this call
LoggedWith(info) ==
    IF LoggedOrigin(info) \in Range(logged_robots) THEN logged_robots
    ELSE Append(logged_robots, LoggedOrigin(info))

\* crawler_runner.py lines 66-80: the seed is added; run raises if it is
\* refused, and otherwise enters the crawler and asks for the seed's robots
SeedAdded(r) ==
    /\ pending' = r.f.pending
    /\ queued' = r.f.queued
    /\ seen' = r.f.seen
    /\ accepted' = accepted \o r.new
    /\ IF r.ret
       THEN /\ AllowedCall(0, settings.seed_url)
            /\ run_pc' = "seed_robots"
       ELSE /\ run_pc' = "aborting"
            /\ UNCHANGED rvars

\* crawler_runner.py lines 85-89 and 81: the seed's robots are logged
SeedRobotsLogged ==
    /\ run_pc = "seed_robots"
    /\ rcall[0].pc = "done"
    /\ logged_robots' = LoggedWith(rcall[0].result.info)
    /\ run_pc' = "drain"
    /\ UNCHANGED <<qvars, rvars, tvars, mvars, settings, stats, task, fetched, files, denied,
                   contributed>>

\* the tasks gathered for a batch, one for each url
TasksFor(urls) ==
    [t \in Tasks |->
        IF t <= Len(urls)
        THEN [NotStarted EXCEPT !.pc = "created", !.url = urls[t]]
        ELSE NotStarted]

\* crawler_runner.py lines 93-103: a batch is taken and its tasks are created;
\* an empty batch breaks out of the loop
TakeBatch(r) ==
    /\ pending' = r.f.pending
    /\ queued' = r.f.queued
    /\ seen' = r.f.seen
    /\ returned' = returned \o r.batch
    /\ stats' = [stats EXCEPT !.attempted = @ + Len(r.batch)]
    /\ task' = TasksFor(r.batch)
    /\ run_pc' = IF r.batch = <<>> THEN "closing" ELSE "gather"

\* the drain loop never entered
DrainGoesOn_never == FALSE

\* crawler_runner.py line 92: the condition of the drain loop
DrainGoesOn == pending # <<>> /\ stats.attempted < settings.max_pages

\* the task going on to the throttle without awaiting the robots' answer
TaskAsksRobots_not_awaited(t) ==
    /\ task[t].pc = "created"
    /\ AllowedCall(t, task[t].url)
    /\ task' = [task EXCEPT ![t].pc = "throttle"]
    /\ UNCHANGED <<qvars, tvars, mvars, settings, run_pc, stats, logged_robots, fetched, files,
                   denied, contributed>>

\* crawler_runner.py lines 116-117: the task asks for its url's robots
TaskAsksRobots(t) ==
    /\ task[t].pc = "created"
    /\ AllowedCall(t, task[t].url)
    /\ task' = [task EXCEPT ![t].pc = "robots"]
    /\ UNCHANGED <<qvars, tvars, mvars, settings, run_pc, stats, logged_robots, fetched, files,
                   denied, contributed>>

\* the robots verdict ignored: every url goes on to the throttle
RobotsForbids_never(verdict) == FALSE

\* crawler_runner.py line 119
RobotsForbids(verdict) == ~verdict.allowed

\* dict[key] += 1, from 0
Bump(dict, key) == Put(dict, key, IF key \in DOMAIN dict THEN dict[key] + 1 ELSE 1)

\* crawler_runner.py lines 118-124: the verdict is logged; a url the robots
\* forbid is counted and the task returns, another goes to the throttle
TaskHasVerdict(t) ==
    /\ task[t].pc = "robots"
    /\ rcall[t].pc = "done"
    /\ logged_robots' = LoggedWith(rcall[t].result.info)
    /\ denied' = IF rcall[t].result.allowed THEN denied ELSE denied \cup {task[t].url}
    /\ IF RobotsForbids(rcall[t].result)
       THEN /\ stats' = [stats EXCEPT !.skipped_by_robots = @ + 1]
            /\ task' = [task EXCEPT ![t].pc = "finished",
                                    ![t].outcome = DiscoveredLinks(task[t].url, <<>>),
                                    ![t].counted = Append(@, "skipped_by_robots")]
       ELSE /\ task' = [task EXCEPT ![t].pc = "throttle"]
            /\ UNCHANGED stats
    /\ UNCHANGED <<qvars, rvars, tvars, mvars, settings, run_pc, fetched, files, contributed>>

\* crawler_runner.py lines 124-131: the wait is over, crawler.arun is called,
\* with a browser session of its own when the tabs are traversed
TaskCallsArun(t) ==
    /\ task[t].pc = "throttle"
    /\ fetched' = Bump(fetched, task[t].url)
    /\ task' = [task EXCEPT ![t].pc = "arun",
                            ![t].session = IF settings.tab_enabled THEN "open"
                                           ELSE "none"]
    /\ UNCHANGED <<qvars, rvars, tvars, mvars, settings, run_pc, stats, logged_robots, files,
                   denied, contributed>>

\* CrawlOrchestrator._cleanup_session: the session after the call; nothing
\* is done without a session, and what kill_session raises is swallowed
_cleanup_session(session, kill) ==
    IF session = "none" THEN "none"
    ELSE IF kill = "raises" THEN "kill_failed"
    ELSE "killed"

\* the failure counted and the exception raised again to the gather
ArunFailed_counted_and_raised(t, result) ==
    /\ stats' = [stats EXCEPT !.failures = @ + 1]
    /\ task' = [task EXCEPT ![t].pc = "finished",
                            ![t].outcome = Raised,
                            ![t].session = _cleanup_session(@, result.kill),
                            ![t].counted = Append(@, "failures")]
    /\ UNCHANGED files

\* crawler_runner.py lines 132-143: arun raised, or its result is a failure
ArunFailed(t, result) ==
    /\ stats' = [stats EXCEPT !.failures = @ + 1]
    /\ task' = [task EXCEPT ![t].pc = "finished",
                            ![t].outcome = DiscoveredLinks(task[t].url, <<>>),
                            ![t].session = _cleanup_session(@, result.kill),
                            ![t].counted = Append(@, "failures")]
    /\ UNCHANGED files

\* str.strip, for the markdown texts of the model
Strip(text) == IF text = " " THEN "" ELSE text

\* CrawlOrchestrator._merge_markdown: the stripped markdown of the page, or
\* the text with the extra tabs merged into it, which is never empty
_merge_markdown(markdown, tabs) ==
    IF tabs = "extras" THEN "# Page and tabs" ELSE Strip(markdown)

\* crawler_runner.py lines 156-166: the markdown is saved if there is any,
\* and the task returns the links of the page; the task raises if
\* _persist_markdown does, either before the file exists (the directory or
\* the file cannot be made, lines 185-186) or after path.open("w") has made
\* it (a write or the closing flush fails, lines 187-189)
TaskKeeps(t, result) ==
    IF _merge_markdown(result.markdown, result.tabs) = ""
    THEN /\ task' = [task EXCEPT ![t].pc = "finished",
                                 ![t].outcome = DiscoveredLinks(result.url, result.links),
                                 ![t].session = _cleanup_session(@, result.kill)]
         /\ UNCHANGED <<stats, files>>
    ELSE IF result.disk = "raises"
    THEN /\ task' = [task EXCEPT ![t].pc = "finished", ![t].outcome = Raised,
                                 ![t].session = _cleanup_session(@, result.kill)]
         /\ UNCHANGED <<stats, files>>
    ELSE IF result.disk = "write_fails"
    THEN /\ files' = files \cup {result.url}
         /\ task' = [task EXCEPT ![t].pc = "finished", ![t].outcome = Raised,
                                 ![t].session = _cleanup_session(@, result.kill)]
         /\ UNCHANGED stats
    ELSE /\ files' = files \cup {result.url}
         /\ stats' = [stats EXCEPT !.saved_pages = @ + 1]
         /\ task' = [task EXCEPT ![t].pc = "finished",
                                 ![t].outcome = DiscoveredLinks(result.url, result.links),
                                 ![t].session = _cleanup_session(@, result.kill),
                                 ![t].counted = Append(@, "saved_pages")]

\* crawler_runner.py lines 146-152: collect_markdown_blocks raises (the page
\* of the session is gone when it is waited on, tab_traversal.py line 201)
\* and the task ends with its exception
TabsRaised(t) ==
    /\ task' = [task EXCEPT ![t].pc = "finished", ![t].outcome = Raised]
    /\ UNCHANGED <<stats, files>>

\* crawler_runner.py lines 130-166: crawler.arun ends
TaskArunEnds(t, result) ==
    /\ task[t].pc = "arun"
    /\ IF result.kind = "raise" \/ ~result.success
       THEN ArunFailed(t, result)
       ELSE IF result.tabs = "raises" THEN TabsRaised(t)
       ELSE TaskKeeps(t, result)
    /\ UNCHANGED <<qvars, rvars, tvars, mvars, settings, run_pc, logged_robots, fetched, denied,
                   contributed>>

\* an exception among the outcomes passed over without being counted
Handled_exception_uncounted(acc, outcome, r) ==
    IF outcome.kind = "exception" THEN acc
    ELSE [f |-> r.f, failures |-> acc.failures, new |-> acc.new \o r.new,
          contributed |-> Put(acc.contributed, outcome.page_url, r.added)]

\* crawler_runner.py lines 105-112: one outcome of the gather is handled
Handled(acc, outcome, r) ==
    IF outcome.kind = "exception"
    THEN [acc EXCEPT !.failures = @ + 1]
    ELSE [f |-> r.f, failures |-> acc.failures, new |-> acc.new \o r.new,
          contributed |-> Put(acc.contributed, outcome.page_url, r.added)]

\* crawler_runner.py lines 105-114: the outcomes handled in the batch's order
RECURSIVE HandleOutcomes(_, _, _, _)
HandleOutcomes(acc, outcomes, parent, respect) ==
    IF outcomes = <<>> THEN acc
    ELSE HandleOutcomes(
             Handled(acc, Head(outcomes),
                     extend([f |-> acc.f, added |-> 0, new |-> <<>>],
                            Head(outcomes).hrefs, Head(outcomes).page_url,
                            parent, respect)),
             Tail(outcomes), parent, respect)

\* the tasks of the batch being gathered
Gathering == {t \in Tasks : task[t].pc # "none"}

\* the gather returning as soon as one task has ended
AllDone_first_completed == \E t \in Gathering : task[t].pc = "finished"

\* crawler_runner.py lines 100-103: every task gathered has ended
AllDone == \A t \in Gathering : task[t].pc = "finished"

\* the outcomes of the gather, in the order of the batch
Outcomes == [t \in 1..Cardinality(Gathering) |-> task[t].outcome]

\* crawler_runner.py lines 101-114: every task has ended, the outcomes are
\* handled and the loop goes round
GatherEnds(acc) ==
    /\ pending' = acc.f.pending
    /\ queued' = acc.f.queued
    /\ seen' = acc.f.seen
    /\ accepted' = accepted \o acc.new
    /\ stats' = [stats EXCEPT !.failures = acc.failures]
    /\ contributed' = acc.contributed
    /\ task' = [t \in Tasks |-> NotStarted]
    /\ run_pc' = "drain"

\* crawler_runner.py lines 100-103: the run is cancelled while it awaits the
\* gather (the event loop's runner cancels the main task on an interrupt);
\* the gather cancels its tasks, their robots calls leave the locks, and the
\* CancelledError goes up to the finally clause of run
Interrupted ==
    /\ run_pc = "gather"
    /\ run_pc' = "failing"
    /\ task' = [t \in Tasks |-> NotStarted]
    /\ rcall' = [t \in Callers |-> IF t \in Tasks THEN NotCalling ELSE rcall[t]]
    /\ holder' = [o \in DOMAIN holder |-> NoTask]
    /\ waiters' = [o \in DOMAIN waiters |-> <<>>]
    /\ UNCHANGED <<qvars, tvars, mvars, cache, locks, fetches, closed, settings, stats,
                   logged_robots, fetched, files, denied, contributed>>

\* the close put after the try block instead of in its finally clause: an
\* exception leaves run with the client open
RobotsClosed_no_finally ==
    /\ closed' = (run_pc = "closing")
    /\ run_pc' = CASE run_pc = "aborting" -> "raised"
                   [] run_pc = "failing" -> "cancelled"
                   [] OTHER -> "returned"

\* crawler_runner.py lines 80-83: the finally clause of run closes the robots
\* manager; then run returns the statistics, or the exception goes on
RobotsClosed ==
    /\ closed' = TRUE
    /\ run_pc' = CASE run_pc = "aborting" -> "raised"
                   [] run_pc = "failing" -> "cancelled"
                   [] OTHER -> "returned"

-----------------------------------------------------------------------------
(* Tab blocks merged into a page's markdown:                               *)
(* tab_traversal.TabTraversalManager.  A text is a sequence of tokens:     *)
(* words, the blank " " and the paragraph break "\n\n"; a heading is one   *)
(* token.                                                                  *)

Break == "\n\n"

IsSpace(token) == token \in {" ", Break}

\* str.lstrip, str.rstrip and str.strip
RECURSIVE lstrip(_)
lstrip(chars) ==
    IF chars # <<>> /\ IsSpace(Head(chars)) THEN lstrip(Tail(chars)) ELSE chars

RECURSIVE rstrip(_)
rstrip(chars) ==
    IF chars # <<>> /\ IsSpace(Last(chars)) THEN rstrip(Front(chars)) ELSE chars

strip(chars) == rstrip(lstrip(chars))

\* sub occurs in chars at offset pos (counted from 0)
OccursAt(chars, sub, pos) ==
    /\ pos >= 0
    /\ pos + Len(sub) <= Len(chars)
    /\ SubSeq(chars, pos + 1, pos + Len(sub)) = sub

\* str.find: the first offset at which sub occurs, or -1
find(chars, sub) ==
    IF \E pos \in 0..Len(chars) : OccursAt(chars, sub, pos)
    THEN CHOOSE pos \in 0..Len(chars) :
             /\ OccursAt(chars, sub, pos)
             /\ \A before \in 0..(pos - 1) : ~OccursAt(chars, sub, before)
    ELSE 0 - 1

\* TabMarkdownBlock
TabMarkdownBlock(group_index, index, tab_label, markdown_text) ==
    [group_index |-> group_index, index |-> index, tab_label |-> tab_label,
     markdown_text |-> markdown_text]

\* TabTraversalManager._heading_for with the default template and the group
\* title "Tabs": the heading of a block, one token
_heading_for(block) ==
    CASE block.tab_label = "pip" -> "#### [Tab: Tabs - pip]"
      [] block.tab_label = "uv" -> "#### [Tab: Tabs - uv]"
      [] block.tab_label = "conda" -> "#### [Tab: Tabs - conda]"
      [] OTHER -> "#### [Tab: Tabs - Tab]"

\* TabTraversalManager.format_block
format_block(block) ==
    <<_heading_for(block), Break>> \o strip(block.markdown_text)

\* the sort key (b.group_index, b.index) of tab_traversal.py line 343
KeyAtMost(a, b) ==
    \/ a.group_index < b.group_index
    \/ a.group_index = b.group_index /\ a.index <= b.index

\* a block put into a sorted list after the blocks whose key is not greater
RECURSIVE InsertSorted(_, _)
InsertSorted(ordered, block) ==
    IF ordered = <<>> THEN <<block>>
    ELSE IF KeyAtMost(Head(ordered), block)
         THEN <<Head(ordered)>> \o InsertSorted(Tail(ordered), block)
         ELSE <<block>> \o ordered

\* sorted(blocks, key=...): the sort is stable
RECURSIVE sorted(_)
sorted(list) ==
    IF list = <<>> THEN <<>>
    ELSE InsertSorted(sorted(Front(list)), Last(list))

\* grouped[g]: the blocks of one group, in the sorted order
GroupBlocks(ordered, g) == SelectSeq(ordered, LAMBDA b : b.group_index = g)

\* the blocks of the other groups, which come after in grouped.values()
OtherGroups(ordered, g) == SelectSeq(ordered, LAMBDA b : b.group_index # g)

\* tab_traversal.py line 348: the blocks after the tab shown first
Extras(group_blocks) == SelectSeq(group_blocks, LAMBDA b : b.index > 0)

\* tab_traversal.py line 347: the blocks of the tab shown first; the anchor is
\* the first of them
Anchors(group_blocks) == SelectSeq(group_blocks, LAMBDA b : b.index = 0)

\* "\n\n".join(format_block(b) for b in extras), extras being non-empty
RECURSIVE Insertion(_)
Insertion(extras) ==
    IF Len(extras) = 1 THEN format_block(extras[1])
    ELSE format_block(Head(extras)) \o <<Break>> \o Insertion(Tail(extras))

\* tab_traversal.py lines 354-359: where the insertion goes when the anchor's
\* text is found, or -1
InsertPos(chars, anchors) ==
    IF anchors = <<>> THEN 0 - 1
    ELSE IF strip(anchors[1].markdown_text) = <<>> THEN 0 - 1
    ELSE IF find(chars, strip(anchors[1].markdown_text)) = 0 - 1 THEN 0 - 1
    ELSE find(chars, strip(anchors[1].markdown_text))
             + Len(strip(anchors[1].markdown_text))

\* tab_traversal.py lines 360-365
InsertedAt(chars, insert_pos, insertion) ==
    SubSeq(chars, 1, insert_pos) \o <<Break>> \o insertion
        \o SubSeq(chars, insert_pos + 1, Len(chars))

\* tab_traversal.py lines 368-372
Appended(chars, insertion) ==
    IF chars # <<>> THEN rstrip(chars) \o <<Break>> \o insertion ELSE insertion

\* tab_traversal.py lines 346-372: one turn of the loop over the groups
MergeGroup(chars, group_blocks) ==
    IF Extras(group_blocks) = <<>> THEN chars
    ELSE IF InsertPos(chars, Anchors(group_blocks)) # 0 - 1
         THEN InsertedAt(chars, InsertPos(chars, Anchors(group_blocks)),
                         Insertion(Extras(group_blocks)))
         ELSE Appended(chars, Insertion(Extras(group_blocks)))

\* tab_traversal.py lines 346-372: the first n turns of the loop, the groups
\* taken in the sorted order
RECURSIVE MergeGroups(_, _, _)
MergeGroups(chars, ordered, n) ==
    IF n = 0 \/ ordered = <<>> THEN chars
    ELSE MergeGroups(MergeGroup(chars, GroupBlocks(ordered, Head(ordered).group_index)),
                     OtherGroups(ordered, Head(ordered).group_index), n - 1)

\* TabTraversalManager.merge_into_markdown
merge_into_markdown(markdown, list) ==
    MergeGroups(strip(markdown), sorted(list), Len(list))

-----------------------------------------------------------------------------
(* The frontier driven by arbitrary calls                                  *)

MaxCalls == 3

MaxBatch == 2

Abs(scheme, netloc, segs, query, fragment) ==
    URL(scheme, netloc, Path(FALSE, segs), query, fragment)

Ref(rel, segs, query, fragment) == URL("", "", Path(rel, segs), query, fragment)

\* the seed URLs a configuration may name
Seeds ==
    { Abs("https", "ex.com", <<"docs", "guide">>, "", ""),
      Abs("https", "EX.com", <<"docs", "">>, "", "") }

ScopeModes == {"parent", "seed"}

\* the page whose links are followed: relative links are resolved against it
Page == Abs("https", "ex.com", <<"docs", "guide">>, "", "")

\* the raw URLs add is called with, each with its base_url: spellings of one
\* page (fragment, dot segments and case, relative), pages inside and outside
\* the parent directory, a segment with parameters, and URLs normalize_url
\* refuses
AddArgs ==
    { <<Abs("https", "ex.com", <<"docs", "setup">>, "", ""), NoURL>>,
      <<Abs("https", "ex.com", <<"docs", "setup">>, "", "top"), NoURL>>,
      <<Abs("HTTPS", "EX.com", <<"docs", ".", "a", "..", "setup">>, "", ""), NoURL>>,
      <<Ref(TRUE, <<"setup">>, "", ""), Page>>,
      <<Abs("https", "ex.com", <<"docs", "guide">>, "", ""), NoURL>>,
      <<Abs("https", "ex.com", <<"docs", "">>, "", ""), NoURL>>,
      <<Abs("https", "ex.com", <<"docs", "a", "b">>, "", ""), NoURL>>,
      <<Abs("https", "ex.com", <<"docs", "v;1", ".">>, "", ""), NoURL>>,
      <<Abs("https", "ex.com", <<"docsx">>, "", ""), NoURL>>,
      <<Abs("https", "ex.com", <<"blog", "post">>, "", ""), NoURL>>,
      <<Abs("ftp", "ex.com", <<"docs", "setup">>, "", ""), NoURL>>,
      <<Ref(TRUE, <<"setup">>, "", ""), NoURL>> }

\* the href lists extend is called with, Page being the base_url
HrefLists ==
    { <<>>,
      << Ref(TRUE, <<"setup">>, "", ""),
         Abs("https", "ex.com", <<"docs", "setup">>, "", "top") >>,
      << Ref(TRUE, <<"..", "docsx">>, "", ""),
         Ref(FALSE, <<>>, "", "top"),
         Ref(TRUE, <<"guide", "x">>, "q=1", "") >> }

NoCall == [op |-> "none", urls |-> <<>>, base |-> NoURL, ret |-> FALSE,
           count |-> 0, new |-> <<>>, batch |-> <<>>]

\* the normalized URLs the add calls of a frontier call were made with
SubmittedBy(c) == { normalize_url(c.urls[i], c.base) : i \in DOMAIN c.urls }

TheFrontier == Frontier(pending, queued, seen)

QueueInit ==
    /\ \E seed \in Seeds, mode \in ScopeModes : parent_url = scope_url(seed, mode)
    /\ respect_parent \in BOOLEAN
    /\ pending = <<>>
    /\ queued = {}
    /\ seen = {}
    /\ RobotsInit
    /\ ThrottleInit(DefaultDelay)
    /\ RunUnused
    /\ MergeUnused
    /\ call = NoCall
    /\ returned = <<>>
    /\ accepted = <<>>
    /\ submitted = {}
    /\ ncalls = 0

\* what every frontier call does to the history
Record(c) ==
    /\ call' = c
    /\ submitted' = submitted \cup SubmittedBy(call)
    /\ accepted' = accepted \o c.new
    /\ returned' = returned \o c.batch
    /\ ncalls' = ncalls + 1
    /\ UNCHANGED <<parent_url, respect_parent, rvars, tvars, mvars, ovars>>

\* the frontier after a call
Becomes(f) ==
    /\ pending' = f.pending
    /\ queued' = f.queued
    /\ seen' = f.seen

Add(url, base_url) ==
    /\ ncalls < MaxCalls
    /\ \E r \in {add(TheFrontier, url, base_url, parent_url, respect_parent)} :
           /\ Becomes(r.f)
           /\ Record([NoCall EXCEPT !.op = "add", !.urls = <<url>>,
                                    !.base = base_url, !.ret = r.ret,
                                    !.new = r.new])

Extend(urls, base_url) ==
    /\ ncalls < MaxCalls
    /\ \E r \in {extend([f |-> TheFrontier, added |-> 0, new |-> <<>>],
                        urls, base_url, parent_url, respect_parent)} :
           /\ Becomes(r.f)
           /\ Record([NoCall EXCEPT !.op = "extend", !.urls = urls,
                                    !.base = base_url, !.count = r.added,
                                    !.new = r.new])

NextBatch(size) ==
    /\ ncalls < MaxCalls
    /\ \E r \in {next_batch(TheFrontier, size, <<>>)} :
           /\ Becomes(r.f)
           /\ Record([NoCall EXCEPT !.op = "next_batch", !.count = size,
                                    !.batch = r.batch])

QueueNext ==
    \/ \E args \in AddArgs : Add(args[1], args[2])
    \/ \E urls \in HrefLists : Extend(urls, Page)
    \/ \E size \in 1..MaxBatch : NextBatch(size)

SpecQueue == QueueInit /\ [][QueueNext]_vars

-----------------------------------------------------------------------------
(* Properties of the frontier                                              *)

\* the normalized URL of the last add call
CallURL == normalize_url(call.urls[1], call.base)

AcceptedURLs == [i \in DOMAIN accepted |-> accepted[i].url]

NewURLs(c) == {c.new[i].url : i \in DOMAIN c.new}

SetupURL == Abs("https", "ex.com", <<"docs", "setup">>, "", "")

BlogURL == Abs("https", "ex.com", <<"blog", "post">>, "", "")

DocsRoot == Abs("https", "ex.com", <<"docs", "">>, "", "")

\* the non-empty segments of a path: its components
Components(path) == SelectSeq(path.segs, LAMBDA seg : seg # "")

\* path is root's path or a descendant of it at a segment boundary
PathUnder(path, root) == IsPrefix(Components(root), Components(path))

\* C1 (frontier exhaustion): over any sequence of add / extend / next_batch
\* calls no URL is returned by next_batch twice and no returned URL is pending;
\* an add (alone or inside extend) of a URL that was already returned, in any
\* raw spelling, returns False and appends nothing.
C1_FrontierExhaustion ==
    /\ NoDuplicates(returned)
    /\ Range(returned) \cap Range(pending) = {}
    /\ call.op = "add" /\ CallURL \in Range(returned) =>
           ~call.ret /\ call.new = <<>>
    /\ call.op = "extend" => NewURLs(call) \cap Range(returned) = {}

\* a returned URL was submitted again, in a spelling that is not its normal form
C1_Witness ==
    /\ call.op = "add"
    /\ CallURL \in Range(returned)
    /\ call.urls[1] # CallURL
    /\ ~call.ret

\* C2 (frontier dedup): an add of a URL whose normalized form was submitted
\* before, whatever the calls in between, returns False; every normalized URL
\* is accepted at most once, and pendingCount grows only by acceptances, so
\* the two adds together raise it by at most one.
C2_FrontierDedup ==
    /\ call.op = "add" /\ CallURL \in submitted => ~call.ret
    /\ call.op = "extend" => NewURLs(call) \cap submitted = {}
    /\ NoDuplicates(AcceptedURLs)
    /\ Len(pending) + Len(returned) = Len(accepted)

\* a second spelling of a URL that was accepted under another spelling is refused
C2_Witness ==
    /\ call.op = "add"
    /\ ~call.ret
    /\ \E i \in DOMAIN accepted :
           accepted[i].url = CallURL /\ accepted[i].raw # call.urls[1]

\* C3 (scope containment): with the parent constraint on, the path of every
\* accepted URL is the scope root's path or a descendant of it at a segment
\* boundary; /docsx is refused under the scope root /docs/.
C3_ScopeContainment ==
    respect_parent =>
        /\ \A i \in DOMAIN accepted : PathUnder(accepted[i].url.path, parent_url.path)
        /\ call.op = "add" /\ CallURL # NoURL
           /\ CallURL.path = Path(FALSE, <<"docsx">>)
           /\ parent_url.path = Path(FALSE, <<"docs", "">>) => ~call.ret

\* under the scope root /docs/ a URL was accepted and /docsx has just been refused
C3_Witness ==
    /\ respect_parent
    /\ parent_url = DocsRoot
    /\ accepted # <<>>
    /\ call.op = "add"
    /\ CallURL = Abs("https", "ex.com", <<"docsx">>, "", "")
    /\ ~call.ret

\* what the claimed contract of add says of a step that adds `normalized`
AddContract(normalized) ==
    IF /\ normalized # NoURL
       /\ ~respect_parent \/ is_within_scope(normalized, parent_url)
       /\ normalized \notin queued \cup seen
    THEN /\ call'.ret
         /\ pending' = Append(pending, normalized)
         /\ queued' = queued \cup {normalized}
         /\ seen' = seen
    ELSE /\ ~call'.ret
         /\ UNCHANGED <<pending, queued, seen>>

\* C4 (the contract of add, as claimed): add returns True, appends the
\* normalized URL to pending and marks it queued exactly when normalization
\* succeeds, the parent constraint is off or the URL lies inside the scope root
\* at any depth, and the URL is neither queued nor seen; otherwise it returns
\* False and changes nothing.
C4_AddContract ==
    [][ncalls' = ncalls + 1 /\ call'.op = "add" =>
            AddContract(normalize_url(call'.urls[1], call'.base))]_qvars

\* C5 (scenario A): the scope root derived in mode parent from the seed
\* https://ex.com/docs/guide is https://ex.com/docs/; a frontier with that root
\* accepts https://ex.com/docs/setup (the first time it is added) and refuses
\* https://ex.com/blog/post.
C5_ScenarioA ==
    respect_parent /\ parent_url = scope_url(Page, "parent") =>
        /\ parent_url = DocsRoot
        /\ call.op = "add" /\ CallURL = SetupURL =>
               (call.ret <=> SetupURL \notin submitted)
        /\ call.op = "add" /\ CallURL = BlogURL => ~call.ret
        /\ BlogURL \notin queued \cup seen

\* under the root derived from the seed, /docs/setup is in and /blog/post was refused
C5_Witness ==
    /\ respect_parent
    /\ parent_url = scope_url(Page, "parent")
    /\ SetupURL \in Range(AcceptedURLs)
    /\ call.op = "add"
    /\ CallURL = BlogURL
    /\ ~call.ret

-----------------------------------------------------------------------------
(* The robots cache driven by concurrent callers                           *)

MaxAllowed == 2

\* the URLs allowed is asked about: two of one origin, one of another
RobotsURLs ==
    { Abs("https", "ex.com", <<"private", "x">>, "", ""),
      Abs("HTTPS", "EX.com", <<"docs", "setup">>, "", ""),
      Abs("http", "ex.com", <<"private", "x">>, "", "") }

RECURSIVE CallsUpTo(_)
\* the allowed() calls made by the callers 0..t
CallsUpTo(t) == IF t < 0 THEN 0 ELSE rcall[t].calls + CallsUpTo(t - 1)

\* the frontier is not part of this specification
QueueUnused ==
    /\ parent_url = NoURL
    /\ respect_parent = TRUE
    /\ pending = <<>>
    /\ queued = {}
    /\ seen = {}
    /\ call = NoCall
    /\ returned = <<>>
    /\ accepted = <<>>
    /\ submitted = {}
    /\ ncalls = 0

RobotsStart ==
    /\ RobotsInit
    /\ QueueUnused
    /\ ThrottleInit(DefaultDelay)
    /\ RunUnused
    /\ MergeUnused

Allowed(t, url) ==
    /\ CallsUpTo(MaxTasks) < MaxAllowed
    /\ AllowedCall(t, url)
    /\ UNCHANGED <<qvars, tvars, mvars, ovars>>

RobotsNext ==
    \/ \E t \in Callers, url \in RobotsURLs : Allowed(t, url)
    \/ \E t \in Callers : LockGranted(t)
    \/ \E t \in Callers, resp \in Responses : GetEnds(t, resp)

SpecRobots == RobotsStart /\ [][RobotsNext]_vars

-----------------------------------------------------------------------------
(* Properties of the robots cache                                          *)

\* the GETs issued for an origin's robots.txt
FetchesOf(origin) == {i \in DOMAIN fetches : fetches[i].origin = origin}

\* the GET for the origin has ended without a usable body: an exception, a
\* status other than 200, or an empty body
RobotsFetchFailed(origin) ==
    \E i \in FetchesOf(origin) :
        /\ fetches[i].resp # <<>>
        /\ \/ fetches[i].resp[1].kind = "exception"
           \/ fetches[i].resp[1].status # 200
           \/ fetches[i].resp[1].text = ""

\* C7 (single fetch per origin): whatever the interleaving of the callers,
\* and whether the GET succeeds or fails, at most one GET of an origin's
\* robots.txt is ever issued.
C7_SingleFetch ==
    \A i, j \in DOMAIN fetches : fetches[i].origin = fetches[j].origin => i = j

\* two callers have their answer for one origin, one of them having waited
\* for the lock while the other's GET, which then failed, was in flight
C7_Witness ==
    \E t, u \in Callers :
        /\ t # u
        /\ rcall[t].pc = "done" /\ rcall[u].pc = "done"
        /\ domain_key(rcall[t].url) = domain_key(rcall[u].url)
        /\ rcall[u].waited
        /\ \E i \in FetchesOf(domain_key(rcall[t].url)) :
               fetches[i].by = t /\ fetches[i].resp = <<[kind |-> "exception",
                                                         status |-> 0, text |-> ""]>>

\* C8 (permissive default): when the GET of an origin's robots.txt raised,
\* had a status other than 200 or an empty body, allowed answers every URL
\* of the origin with permission, an empty raw text and a crawl delay of 0.
C8_PermissiveDefault ==
    \A t \in Callers :
        rcall[t].pc = "done" /\ RobotsFetchFailed(domain_key(rcall[t].url)) =>
            /\ rcall[t].result.allowed
            /\ rcall[t].result.info.raw_text = ""
            /\ rcall[t].result.info.crawl_delay = 0

\* a URL under /private is allowed although the 404 response carried a body
\* that disallows /private, and a later call for the origin is allowed too
C8_Witness ==
    \E t, u \in Callers :
        /\ t # u
        /\ rcall[t].pc = "done" /\ rcall[u].pc = "done"
        /\ rcall[t].url = Abs("https", "ex.com", <<"private", "x">>, "", "")
        /\ domain_key(rcall[u].url) = domain_key(rcall[t].url)
        /\ rcall[t].result.allowed /\ rcall[u].result.allowed
        /\ \E i \in FetchesOf(domain_key(rcall[t].url)) :
               fetches[i].resp = <<[kind |-> "response", status |-> 404,
                                    text |-> TextPrivate]>>

-----------------------------------------------------------------------------
(* The throttle driven by concurrent tasks                                 *)

MaxTime == 2

MaxReservations == 2

\* the delays a configuration may name: none at all, a range, and a
\* max_seconds below min_seconds
DelayChoices ==
    { [min_seconds |-> 0, max_seconds |-> 0],
      [min_seconds |-> 1, max_seconds |-> 2],
      [min_seconds |-> 2, max_seconds |-> 1] }

\* the crawl delays the robots policy of an origin may carry, None included
RobotsDelays == {<<>>, <<0>>, <<3>>}

\* one URL of each of two domains
ThrottleURLs ==
    { Abs("https", "ex.com", <<"docs", "guide">>, "", ""),
      Abs("http", "ex.com", <<"docs", "guide">>, "", "") }

ThrottleStart ==
    /\ \E delays \in DelayChoices : ThrottleInit(delays)
    /\ RobotsInit
    /\ QueueUnused
    /\ RunUnused
    /\ MergeUnused

WaitForTurn(t, url, robots_delay) ==
    /\ Len(reserved) < MaxReservations
    /\ wait_for_turn(t, url, robots_delay)
    /\ UNCHANGED <<qvars, rvars, ovars, mvars>>

\* the clock advances
Tick ==
    /\ now < MaxTime
    /\ now' = now + 1
    /\ UNCHANGED <<delay, last_hit, tcall, reserved, qvars, rvars, ovars, mvars>>

ThrottleNext ==
    \/ \E t \in Tasks, url \in ThrottleURLs, robots_delay \in RobotsDelays :
           WaitForTurn(t, url, robots_delay)
    \/ \E t \in Tasks : SleepEnds(t)
    \/ Tick

SpecThrottle == ThrottleStart /\ [][ThrottleNext]_vars

-----------------------------------------------------------------------------
(* Properties of the throttle                                              *)

\* C10 (monotone slots, minimum wait): of two reservations of one domain the
\* later one stores a ready_at that is not below the earlier one's, and the
\* wait of every reservation is at least the configured min_seconds.
C10_MonotoneSlots ==
    /\ \A i, j \in DOMAIN reserved :
           i < j /\ reserved[i].domain = reserved[j].domain =>
               reserved[i].ready_at <= reserved[j].ready_at
    /\ \A i \in DOMAIN reserved : reserved[i].wait_for >= delay.min_seconds

\* the delay a reservation had to respect: max(jitter, robots delay)
Required(r) == Max(r.base_delay, r.robots_delay)

\* the wait the formula gives reservation r, made at time `at` when the
\* reservations stored were `hits`
FormulaWait(r, hits, at) ==
    IF r.domain \notin DOMAIN hits THEN Required(r)
    ELSE Max(Required(r) - (at - hits[r.domain]), r.base_delay)

\* reservation r, made at time `at` over the stored reservations `hits` and
\* leaving `stored`, follows the formula
FollowsFormula(r, hits, at, stored) ==
    /\ r.base_delay >= delay.min_seconds
    /\ r.base_delay <= Max(delay.max_seconds, delay.min_seconds)
    /\ r.wait_for = FormulaWait(r, hits, at)
    /\ r.ready_at = at + r.wait_for
    /\ stored[r.domain] = at + r.wait_for
    /\ r.wait_for >= r.base_delay
    /\ r.domain \notin DOMAIN hits => r.wait_for >= Required(r)

\* C11 (wait formula): every reservation draws its jitter from the configured
\* range, waits max(jitter, robots delay) when its domain has no reservation
\* and max(required - (now - ready_at), jitter) otherwise, and stores
\* ready_at = now + wait; so a first hit waits at least the required delay
\* and no call waits less than its jitter.
C11_WaitFormula ==
    [][Len(reserved') = Len(reserved) + 1 =>
           FollowsFormula(reserved'[Len(reserved')], last_hit, now, last_hit')]_vars

\* a first hit that waited for the robots delay, above its jitter, and a
\* second hit of the domain that waited for the rest of the slot, above its
\* own jitter
C11_Witness ==
    \E i, j \in DOMAIN reserved :
        /\ i < j
        /\ reserved[i].domain = reserved[j].domain
        /\ reserved[i].wait_for = reserved[i].robots_delay
        /\ reserved[i].wait_for > reserved[i].base_delay
        /\ reserved[j].wait_for > Required(reserved[j])

\* the time a reservation was made at
MadeAt(r) == r.ready_at - r.wait_for

\* two reservations of one domain, the second made after the slot of the
\* first had passed, under a configuration with a minimum above 0
C10_Witness ==
    \E i, j \in DOMAIN reserved :
        /\ i < j
        /\ reserved[i].domain = reserved[j].domain
        /\ MadeAt(reserved[j]) > reserved[i].ready_at
        /\ reserved[i].ready_at < reserved[j].ready_at
        /\ delay.min_seconds > 0

\* reservation i is the one before reservation j, among those of j's domain
Precedes(i, j) ==
    /\ i < j
    /\ reserved[i].domain = reserved[j].domain
    /\ \A k \in DOMAIN reserved :
           i < k /\ k < j => reserved[k].domain # reserved[j].domain

\* C12 (serialized reservations): whatever the interleaving of the callers of
\* one domain, each reservation is computed from the ready_at stored by the
\* reservation just before it, never from an older one, so its ready_at is at
\* least the previous ready_at plus its own required delay.
C12_Serialized ==
    \A i, j \in DOMAIN reserved :
        Precedes(i, j) =>
            /\ reserved[j].wait_for =
                   Max(Required(reserved[j])
                           - (MadeAt(reserved[j]) - reserved[i].ready_at),
                       reserved[j].base_delay)
            /\ reserved[j].ready_at >= reserved[i].ready_at + Required(reserved[j])

\* two tasks reserved slots of one domain at the same time, the second behind
\* the first, and both are still asleep
C12_Witness ==
    /\ \A t \in {1, 2} : tcall[t].pc = "sleeping"
    /\ tcall[1].wake # tcall[2].wake
    /\ \E i, j \in DOMAIN reserved :
           /\ Precedes(i, j)
           /\ MadeAt(reserved[i]) = MadeAt(reserved[j])
           /\ reserved[j].ready_at > reserved[i].ready_at

-----------------------------------------------------------------------------
(* The crawl of a small site                                               *)

MaxPages == 3

GuideURL == Abs("https", "ex.com", <<"docs", "guide">>, "", "")

PrivateURL == Abs("https", "ex.com", <<"private", "x">>, "", "")

\* the seeds a configuration may name
RunSeeds == {GuideURL, PrivateURL}

\* the crawl parameters a configuration may come to: every scope without
\* the traversal of tabs, and the default scope with it
CrawlChoices ==
    [seed_url : RunSeeds, scope_mode : ScopeModes, respect_parent_path : BOOLEAN,
     concurrency : 1..MaxTasks, max_pages : 1..MaxPages, tab_enabled : {FALSE}]
    \cup
    [seed_url : RunSeeds, scope_mode : {"parent"}, respect_parent_path : {TRUE},
     concurrency : 1..MaxTasks, max_pages : 1..MaxPages, tab_enabled : {TRUE}]

\* the links of the site's pages, as the rendering engine reports them
LinksOf(url) ==
    CASE url = GuideURL ->
             << Abs("http", "ex.com", <<"private", "x">>, "", ""),
                Abs("http", "ex.com", <<"docs", "guide">>, "", ""),
                Ref(TRUE, <<"setup">>, "", ""),
                Abs("https", "ex.com", <<"docs", "guide">>, "", "top") >>
      [] url = SetupURL ->
             << Ref(TRUE, <<"guide">>, "", ""),
                Ref(FALSE, <<"private", "x">>, "", "") >>
      [] url = PrivateURL ->
             << GuideURL, Ref(TRUE, <<"y">>, "", "") >>
      [] url = Abs("http", "ex.com", <<"docs", "guide">>, "", "") ->
             << Ref(TRUE, <<"setup">>, "", "") >>
      [] url = Abs("https", "ex.com", <<"private", "y">>, "", "") ->
             << GuideURL >>
      [] OTHER -> <<>>

\* the markdown the rendering engine may return: none, blank, some
Markdowns == {"", " ", "# Page"}

\* what collect_markdown_blocks may come to: no blocks (no tabs, or the
\* traversal is off), extra tabs with their markdown, or an exception
TabOutcomes == IF settings.tab_enabled THEN {"none", "extras", "raises"} ELSE {"none"}

\* what kill_session may come to, for a task that has a session
KillOutcomes == IF settings.tab_enabled THEN {"ok", "raises"} ELSE {"ok"}

\* what crawler.arun(url) and the calls after it may come to: an exception,
\* a failure result, or a page with its markdown and links; `tabs` is what
\* the traversal of its tabs comes to, `kill` what the teardown of the
\* session comes to, and `disk` what becomes of writing its file: written,
\* not made at all, or made and then a write fails.  The tab blocks of these
\* pages carry no links.
ArunResults(url) ==
    { [kind |-> k, success |-> FALSE, url |-> url, markdown |-> "",
       links |-> <<>>, disk |-> "ok", tabs |-> "none", kill |-> c] :
          k \in {"raise", "result"}, c \in KillOutcomes }
    \cup
    { [kind |-> "result", success |-> TRUE, url |-> url, markdown |-> m,
       links |-> LinksOf(url), disk |-> d, tabs |-> b, kill |-> c] :
          m \in Markdowns, d \in {"ok", "raises", "write_fails"},
          b \in TabOutcomes, c \in KillOutcomes }

RunStart ==
    /\ \E crawl \in CrawlChoices : OrchestratorInit(crawl)
    /\ call = NoCall
    /\ returned = <<>>
    /\ accepted = <<>>
    /\ submitted = {}
    /\ ncalls = 0

\* crawler_runner.py lines 66-80
Seeding ==
    /\ run_pc = "seeding"
    /\ \E r \in {add(TheFrontier, settings.seed_url, NoURL, parent_url, respect_parent)} :
           SeedAdded(r)
    /\ UNCHANGED <<parent_url, respect_parent, call, returned, submitted, ncalls, tvars, mvars,
                   settings, stats, task, logged_robots, fetched, files, denied,
                   contributed>>

\* crawler_runner.py lines 92-103: the drain loop takes a batch, or ends
Drain ==
    /\ run_pc = "drain"
    /\ IF DrainGoesOn
       THEN /\ \E r \in {next_batch(TheFrontier,
                                    Min(settings.concurrency,
                                        settings.max_pages - stats.attempted),
                                    <<>>)} : TakeBatch(r)
            /\ UNCHANGED accepted
       ELSE /\ run_pc' = "closing"
            /\ UNCHANGED <<pending, queued, seen, returned, accepted, stats, task>>
    /\ UNCHANGED <<parent_url, respect_parent, call, submitted, ncalls, rvars, tvars, mvars,
                   settings, logged_robots, fetched, files, denied, contributed>>

\* crawler_runner.py lines 101-114
Gathered ==
    /\ run_pc = "gather"
    /\ AllDone
    /\ \E acc \in {HandleOutcomes([f |-> TheFrontier, failures |-> stats.failures,
                                   new |-> <<>>, contributed |-> contributed],
                                  Outcomes, parent_url, respect_parent)} :
           GatherEnds(acc)
    /\ UNCHANGED <<parent_url, respect_parent, call, returned, submitted, ncalls, rvars,
                   tvars, mvars, settings, logged_robots, fetched, files, denied>>

\* crawler_runner.py lines 82-83
Close ==
    /\ run_pc \in {"closing", "aborting", "failing"}
    /\ RobotsClosed
    /\ UNCHANGED <<qvars, cache, locks, holder, waiters, rcall, fetches, tvars, mvars, settings,
                   stats, task, logged_robots, fetched, files, denied, contributed>>

RunNext ==
    \/ Seeding
    \/ SeedRobotsLogged
    \/ \E t \in Callers : LockGranted(t)
    \/ \E t \in Callers, resp \in Responses : GetEnds(t, resp)
    \/ Drain
    \/ \E t \in Tasks : TaskAsksRobots(t)
    \/ \E t \in Tasks : TaskHasVerdict(t)
    \/ \E t \in Tasks : TaskCallsArun(t)
    \/ \E t \in Tasks : \E result \in ArunResults(task[t].url) : TaskArunEnds(t, result)
    \/ Gathered
    \/ Interrupted
    \/ Close

SpecRun == RunStart /\ [][RunNext]_vars

\* the steps of the tasks and of the robots calls: the event loop runs every
\* coroutine that can run, and every request sent comes to a response or an
\* error
TaskSteps ==
    \/ \E t \in Callers : LockGranted(t)
    \/ \E t \in Callers, resp \in Responses : GetEnds(t, resp)
    \/ \E t \in Tasks : TaskAsksRobots(t)
    \/ \E t \in Tasks : TaskHasVerdict(t)
    \/ \E t \in Tasks : TaskCallsArun(t)
    \/ \E t \in Tasks : \E result \in ArunResults(task[t].url) : TaskArunEnds(t, result)

\* the steps of run that take nothing from the pages
RunSteps == SeedRobotsLogged \/ Drain \/ Close

\* run goes on from where it stands: the seed is added at line 67, and the
\* gather of line 100 returns once every task of the batch has ended
RunResumes ==
    \/ run_pc = "seeding" /\ run_pc' \in {"seed_robots", "aborting"}
    \/ /\ run_pc = "gather"
       /\ AllDone
       /\ run_pc' = "drain"

\* the crawl with every task coming to its end and run never left suspended;
\* a step of RunResumes is a step of Seeding or of Gathered
SpecRunFair ==
    /\ RunStart
    /\ [][RunNext]_vars
    /\ WF_vars(TaskSteps)
    /\ WF_vars(RunSteps)
    /\ WF_run_pc(RunResumes)

-----------------------------------------------------------------------------
(* merge_into_markdown applied to small pages                              *)

MaxBlocks == 3

\* the markdown of a page, as crawler.arun returns it
BaseTexts ==
    { <<>>, <<"a">>, <<"b">>, <<"a", " ", "b">>, <<" ", "b", Break, "a", Break>> }

\* the label of the tab at an index of its group
TabLabel(index) ==
    CASE index = 0 -> "pip" [] index = 1 -> "uv" [] OTHER -> "conda"

\* the blocks collect_markdown_blocks may return: their markdown is stripped
\* (tab_traversal.py line 92)
BlockChoices ==
    { TabMarkdownBlock(g, i, TabLabel(i), markdown_text) :
          g \in {0, 1}, i \in {0, 1, 2},
          markdown_text \in {<<"a">>, <<"b">>, <<"a", " ", "b">>} }

BlockLists == UNION {[1..n -> BlockChoices] : n \in 0..MaxBlocks}

MergeStart ==
    /\ base_markdown \in BaseTexts
    /\ blocks \in BlockLists
    /\ merged = <<>>
    /\ TabsUnused
    /\ QueueUnused
    /\ RobotsInit
    /\ ThrottleInit(DefaultDelay)
    /\ RunUnused

\* crawler_runner.py line 210: merge_into_markdown is called and returns
Merge ==
    /\ merged = <<>>
    /\ merged' = <<merge_into_markdown(base_markdown, blocks)>>
    /\ UNCHANGED <<base_markdown, blocks, pvars, qvars, rvars, tvars, ovars>>

MergeNext == Merge

SpecMerge == MergeStart /\ [][MergeNext]_vars

-----------------------------------------------------------------------------
(* Properties of the merge                                                 *)

\* the groups of the blocks
Groups == {blocks[i].group_index : i \in DOMAIN blocks}

\* the blocks of a group, as the loop sees them
BlocksOf(g) == GroupBlocks(sorted(blocks), g)

\* the text before and after the loop's turn for a group
TextBefore(g) ==
    MergeGroups(strip(base_markdown), sorted(blocks),
                Cardinality({h \in Groups : h < g}))

TextAfter(g) ==
    MergeGroups(strip(base_markdown), sorted(blocks),
                Cardinality({h \in Groups : h < g}) + 1)

\* the trimmed markdown of a group's anchor
AnchorText(g) == strip(Anchors(BlocksOf(g))[1].markdown_text)

\* the group has an anchor whose trimmed markdown occurs in the base text
AnchorInBase(g) ==
    /\ Anchors(BlocksOf(g)) # <<>>
    /\ AnchorText(g) # <<>>
    /\ \E pos \in 0..Len(base_markdown) :
           OccursAt(strip(base_markdown), AnchorText(g), pos)

\* C18 (merge placement): for each tab group, when the anchor (tab index 0)
\* exists and its trimmed markdown occurs verbatim in the base text, the
\* extras, in tab-index order and each under its heading, are inserted right
\* after an occurrence of the anchor's text; when the anchor is missing or
\* its text does not occur in the base text, they are appended at the end; a
\* group without extras changes nothing.
C18_MergePlacement ==
    merged # <<>> =>
        \A g \in Groups :
            IF Extras(BlocksOf(g)) = <<>> THEN TextAfter(g) = TextBefore(g)
            ELSE IF AnchorInBase(g)
                 THEN \E pos \in 0..Len(TextBefore(g)) :
                          /\ OccursAt(TextBefore(g), AnchorText(g), pos)
                          /\ TextAfter(g) =
                                 InsertedAt(TextBefore(g), pos + Len(AnchorText(g)),
                                            Insertion(Extras(BlocksOf(g))))
                 ELSE TextAfter(g) =
                          Appended(TextBefore(g), Insertion(Extras(BlocksOf(g))))

\* sub is chars with some tokens left out
RECURSIVE Embeds(_, _)
Embeds(chars, sub) ==
    IF sub = <<>> THEN TRUE
    ELSE IF chars = <<>> THEN FALSE
    ELSE IF Head(chars) = Head(sub) THEN Embeds(Tail(chars), Tail(sub))
    ELSE Embeds(Tail(chars), sub)

\* C19 (the merge loses nothing): every block with tab index > 0 is in the
\* merged text as its whole heading-prefixed text in one piece, whatever the
\* groups processed after its own did, and the base text is kept in order.
C19_MergeKeepsAll ==
    merged # <<>> =>
        /\ \A i \in DOMAIN blocks :
               blocks[i].index > 0 =>
                   \E pos \in 0..Len(merged[1]) :
                       OccursAt(merged[1], format_block(blocks[i]), pos)
        /\ Embeds(merged[1], strip(base_markdown))

-----------------------------------------------------------------------------
(* Properties of the crawl                                                 *)

\* C6 (the seed lies in its own scope): for a seed URL that normalizes, in
\* either scope mode, the add of the seed on the empty frontier returns True,
\* so run never aborts with the seed refused.
C6_SeedAccepted ==
    normalize_url(settings.seed_url, NoURL) # NoURL =>
        run_pc \notin {"aborting", "raised"}

\* C9 (skipped by robots): a dequeued URL whose robots check said
\* allowed=False adds exactly one to skipped_by_robots, is never passed to
\* crawler.arun, has no file written, and its task returns no links, so that
\* it adds nothing to the frontier.
C9_RobotsSkip ==
    /\ stats.skipped_by_robots = Cardinality(denied)
    /\ \A url \in denied :
           /\ url \notin DOMAIN fetched
           /\ url \notin files
           /\ url \in DOMAIN contributed => contributed[url] = 0
    /\ \A t \in Tasks :
           task[t].pc = "finished" /\ task[t].url \in denied =>
               task[t].outcome = DiscoveredLinks(task[t].url, <<>>)

\* robots.txt disallows /private, https://ex.com/private/x was dequeued and
\* skipped, and its outcome has been handled by the drain loop
C9_Witness ==
    /\ PrivateURL \in denied
    /\ PrivateURL \in DOMAIN contributed
    /\ stats.skipped_by_robots = 1
    /\ cache[domain_key(PrivateURL)].raw_text = TextPrivate

\* the number of tasks being gathered
InFlight == Cardinality(Gathering)

\* C13 (page ceiling and concurrency width): attempted never exceeds
\* max_pages; a batch taken by the drain loop has
\* min(concurrency, max_pages - attempted, number of pending URLs) URLs, all
\* counted as attempted; the tasks in flight never exceed the concurrency.
C13_PageCeiling ==
    [][/\ stats'.attempted <= settings.max_pages
       /\ InFlight' <= settings.concurrency
       /\ run_pc = "drain" /\ run_pc' = "gather" =>
              /\ InFlight' = Min(Min(settings.concurrency,
                                     settings.max_pages - stats.attempted),
                                 Len(pending))
              /\ InFlight' <= settings.max_pages - stats.attempted
              /\ stats'.attempted = stats.attempted + InFlight']_vars

\* a batch of one URL under a concurrency of 2: one page was left of the
\* budget while more URLs were pending
C13_Witness ==
    /\ run_pc = "gather"
    /\ settings.concurrency = 2
    /\ InFlight = 1
    /\ stats.attempted = settings.max_pages
    /\ Len(pending) >= 2

\* run has exited: it returned the statistics, or an exception left it
Exited == run_pc \in {"returned", "raised", "cancelled"}

\* C14 (run termination): when every task comes to its end, run exits,
\* whatever the links of the pages are; when it returns, no URL is pending
\* or attempted has reached max_pages.
C14_Terminates ==
    /\ <>Exited
    /\ [](run_pc = "returned" =>
              pending = <<>> \/ stats.attempted >= settings.max_pages)

\* run has returned below the ceiling with nothing pending, after the two
\* pages that link to each other were fetched
C14_Witness ==
    /\ run_pc = "returned"
    /\ pending = <<>>
    /\ stats.attempted < settings.max_pages
    /\ {GuideURL, SetupURL} \subseteq DOMAIN fetched

\* the tasks of the batch that raised
RaisedIn == {t \in Gathering : task[t].outcome.kind = "exception"}

\* after the step, the link is pending or was dequeued before, unless it does
\* not normalize or lies outside the parent
LinkKept(href, page_url) ==
    \/ normalize_url(href, page_url) = NoURL
    \/ OutsideParent(normalize_url(href, page_url), parent_url, respect_parent)
    \/ normalize_url(href, page_url) \in queued' \cup seen'

\* C15 (task isolation): a task that raises leaves its siblings and run as
\* they are; when the gather of a batch with a raised task returns, every
\* task of the batch has ended, failures has grown by one for each task that
\* raised, the links the siblings returned are in the frontier, and run is
\* back at the head of the drain loop.
C15_TaskIsolation ==
    [][/\ \A t \in Tasks :
              task[t].outcome.kind # "exception" /\ task'[t].outcome.kind = "exception" =>
                  /\ run_pc' = run_pc
                  /\ \A u \in Tasks \ {t} : task'[u] = task[u]
                  /\ pending' = pending
       /\ RaisedIn # {} /\ run_pc = "gather" /\ run_pc' # "gather" =>
              \/ run_pc' = "failing"
              \/ /\ run_pc' = "drain"
                 /\ \A t \in Gathering : task[t].pc = "finished"
                 /\ stats'.failures = stats.failures + Cardinality(RaisedIn)
                 /\ \A t \in Gathering \ RaisedIn :
                        \A i \in DOMAIN task[t].outcome.hrefs :
                            LinkKept(task[t].outcome.hrefs[i], task[t].outcome.page_url)]_vars

\* the second batch was http://ex.com/private/x, whose task raised, and
\* http://ex.com/docs/guide, whose link was added; the loop is at its head
C15_Witness ==
    /\ run_pc = "drain"
    /\ Len(returned) = 3
    /\ returned[2] \in DOMAIN fetched \ DOMAIN contributed
    /\ returned[3] \in DOMAIN contributed
    /\ contributed[returned[3]] = 1
    /\ stats.failures = 1
    /\ Abs("http", "ex.com", <<"docs", "setup">>, "", "") \in Range(pending)

\* C16 (no garbage output): a file exists only for a URL that was fetched and
\* that the robots did not forbid, and saved_pages counts the files: it is
\* incremented exactly when a file is written.
C16_NoGarbage ==
    /\ \A url \in files : url \in DOMAIN fetched /\ url \notin denied
    /\ stats.saved_pages = Cardinality(files)

\* C17 (failure is terminal per URL): no URL is dequeued twice, so each URL
\* is handed to at most one task and fetched at most once over the run, and
\* a URL that was dequeued is never pending again, whatever became of its
\* task and whichever pages link to it later.
C17_NeverRequeued ==
    /\ NoDuplicates(returned)
    /\ \A i \in DOMAIN returned : returned[i] \notin Range(pending)
    /\ \A url \in DOMAIN fetched : fetched[url] = 1
    /\ \A t, u \in Gathering : t # u => task[t].url # task[u].url

\* the fetch of the guide failed (it added no link), then /private/y, which
\* links to the guide, was fetched and its links were handled: the guide is
\* not pending
C17_Witness ==
    /\ ~respect_parent
    /\ Len(returned) = 3
    /\ returned[2] = GuideURL
    /\ GuideURL \in DOMAIN fetched
    /\ GuideURL \in DOMAIN contributed
    /\ contributed[GuideURL] = 0
    /\ returned[3] = Abs("https", "ex.com", <<"private", "y">>, "", "")
    /\ returned[3] \in DOMAIN contributed
    /\ returned[3] \in files
    /\ stats.failures = 1
    /\ run_pc = "drain"

\* C20 (the robots client is always released): every execution of run closes
\* the robots manager's HTTP client before it exits, whether run returns the
\* statistics, raises because the seed was refused, or is left by an
\* exception out of the drain loop; and every execution comes to close it.
C20_RobotsReleased ==
    /\ [](Exited => closed)
    /\ <>closed

C20_Witness ==
    /\ run_pc = "cancelled"
    /\ closed
    /\ DOMAIN fetched # {}
    /\ pending # <<>>

-----------------------------------------------------------------------------
(* Properties of the normalizer and the frontier                           *)

\* the absolute URLs the last frontier call was made with that normalize_url
\* accepts
AcceptedAbsolute ==
    { call.urls[i] : i \in { j \in DOMAIN call.urls :
                                 /\ call.urls[j].scheme # ""
                                 /\ normalize_url(call.urls[j], NoURL) # NoURL } }

\* C23 (normalization is idempotent): for every absolute http(s) URL u that
\* normalize_url accepts, with its fragment, dot segments, repeated or
\* trailing slashes and mixed case, normalizing the normalized URL again
\* gives the same URL.
C23_Idempotent ==
    \A u \in AcceptedAbsolute :
        normalize_url(normalize_url(u, NoURL), NoURL) = normalize_url(u, NoURL)

\* C24 (FIFO dequeue): next_batch(n) returns exactly min(n, pending) URLs,
\* the oldest accepted first; the batches returned so far, one after the
\* other, are always a prefix of the accepted URLs in the order of their
\* acceptance.
C24_FIFO ==
    /\ [](IsPrefix(returned, AcceptedURLs))
    /\ [][ncalls' = ncalls + 1 /\ call'.op = "next_batch" =>
            /\ Len(call'.batch) = Min(call'.count, Len(pending))
            /\ call'.batch = SubSeq(pending, 1, Len(call'.batch))
            /\ pending' = SubSeq(pending, Len(call'.batch) + 1, Len(pending))]_vars

\* a batch shorter than asked for, after a full batch: the three accepted
\* URLs have been returned in the order of their acceptance
C24_Witness ==
    /\ call.op = "next_batch"
    /\ call.count = 2
    /\ Len(call.batch) = 1
    /\ Len(returned) = 3
    /\ returned = AcceptedURLs

\* C25 (the frontier's state): after any calls of add / extend / next_batch,
\* queued is the set of the pending URLs, no URL is pending twice, no URL is
\* both queued and seen, seen only grows, and pending + scheduled is the
\* number of distinct URLs ever accepted.
C25_FrontierState ==
    /\ [](/\ queued = Range(pending)
          /\ NoDuplicates(pending)
          /\ queued \cap seen = {}
          /\ Len(pending) + Cardinality(seen) = Cardinality(Range(AcceptedURLs)))
    /\ [][seen \subseteq seen']_vars

\* some URLs dequeued and another pending, one of the dequeued just refused
C25_Witness ==
    /\ call.op = "extend"
    /\ call.count = 0
    /\ call.urls # <<>>
    /\ seen # {}
    /\ pending # <<>>
    /\ Cardinality(NewURLs(call)) = 0
    /\ SubmittedBy(call) \cap seen # {}

-----------------------------------------------------------------------------
(* The throttle's lock                                                     *)

\* the reservations made before a step for the domain of reservation r
EarlierOf(r) == {i \in DOMAIN reserved : reserved[i].domain = r.domain}

\* the wait of reservation r, made now, from the reservations of its own
\* domain alone
OwnDomainWait(r) ==
    IF EarlierOf(r) = {} THEN Required(r)
    ELSE Max(Required(r)
                 - (now - reserved[CHOOSE i \in EarlierOf(r) :
                                      \A k \in EarlierOf(r) : k <= i].ready_at),
             r.base_delay)

\* C29 (the lock is not held across a sleep): while a caller sleeps, another
\* caller can make its reservation at once, for any domain; and the wait of a
\* reservation is computed from the reservations of its own domain alone, so
\* a caller for domain B does not wait for what was reserved for domain A.
C29_SleepOutsideLock ==
    /\ [](\A t, other \in Tasks :
              /\ tcall[t].pc = "sleeping"
              /\ tcall[other].pc # "sleeping"
              /\ Len(reserved) < MaxReservations
              => \A url \in ThrottleURLs : ENABLED WaitForTurn(other, url, <<>>))
    /\ [][Len(reserved') = Len(reserved) + 1 =>
              reserved'[Len(reserved')].wait_for =
                  OwnDomainWait(reserved'[Len(reserved')])]_vars

\* two callers asleep, for two domains, on reservations made at the same time:
\* the second was made while the first slept, and its wait is the shorter
C29_Witness ==
    /\ \A t \in {1, 2} : tcall[t].pc = "sleeping"
    /\ Len(reserved) = 2
    /\ reserved[1].domain # reserved[2].domain
    /\ MadeAt(reserved[1]) = MadeAt(reserved[2])
    /\ reserved[2].wait_for < reserved[1].wait_for
    /\ reserved[2].wait_for = Required(reserved[2])

-----------------------------------------------------------------------------
(* Properties of the tasks of a batch                                      *)

\* no task of the batch is running: none was created, or all have ended
NoTaskRunning == \A t \in Tasks : task[t].pc \in {"none", "finished"}

\* C21 (the counters have one writer): attempted, saved_pages,
\* skipped_by_robots and failures are written by the coordinating path only,
\* when every task of the batch has ended; no task writes a counter while it
\* or a sibling is running.
C21_CoordinatorCounts == [][stats' # stats => NoTaskRunning]_vars

\* C22 (session cleanup on every exit): a task that opened a browser session
\* has attempted its teardown whenever it has ended, by an exception of the
\* fetch, a failure result, a success, or an exception of the tab
\* collection, the merge or the persist; and a teardown that fails leaves a
\* task that counted its page with the links it returns.
C22_SessionCleanup ==
    \A t \in Tasks :
        task[t].pc = "finished" =>
            /\ task[t].session # "open"
            /\ task[t].session = "kill_failed" /\ task[t].counted # <<>> =>
                   task[t].outcome.kind = "links"

\* C26 (no batch overlap): the frontier is changed (next_batch, add, extend)
\* only while no task is running; the gather returns to the loop only when
\* every task of the batch has ended, and a batch is taken only when no task
\* of the batch before is left.
C26_NoBatchOverlap ==
    /\ [][<<pending, queued, seen>>' # <<pending, queued, seen>> => NoTaskRunning]_vars
    /\ [][run_pc = "gather" /\ run_pc' = "drain" => NoTaskRunning]_vars
    /\ [](run_pc = "drain" => \A t \in Tasks : task[t] = NotStarted)

\* the second batch, of two tasks, is gathered after the links of the first
\* were merged, and one of its tasks has ended before the other
C26_Witness ==
    /\ run_pc = "gather"
    /\ Len(returned) = 3
    /\ returned[1] \in DOMAIN contributed
    /\ contributed[returned[1]] = 2
    /\ task[1].pc = "arun"
    /\ task[2].pc = "finished"

\* the origins whose robots check the orchestrator has taken the answer of
CheckedOrigins ==
    { domain_key(task[t].url) : t \in {u \in Tasks : task[u].pc \in {"throttle", "arun",
                                                                     "finished"}} }
    \cup { domain_key(url) : url \in DOMAIN fetched \cup denied }
    \cup { domain_key(settings.seed_url) : x \in {p \in {run_pc} :
                                                     p \in {"drain", "gather", "closing",
                                                            "failing", "returned",
                                                            "cancelled"}} }

\* C27 (robots text logged once per origin): the robots text of an origin is
\* logged once in a run, when the first robots check of the origin has been
\* answered, and not again, also when several tasks of a batch get their
\* answers for one origin; every origin checked is logged.
C27_LoggedOnce ==
    /\ NoDuplicates(logged_robots)
    /\ CheckedOrigins \subseteq Range(logged_robots)

\* two tasks of one batch have the answer for one origin, which is not the
\* seed's; the second waited for the first's download, and each origin is
\* logged once
C27_Witness ==
    /\ Len(logged_robots) = 2
    /\ \A t \in {1, 2} : task[t].pc = "throttle"
    /\ domain_key(task[1].url) = domain_key(task[2].url)
    /\ domain_key(task[1].url) # domain_key(settings.seed_url)
    /\ rcall[2].waited

\* C28 (per-URL ordering): crawler.arun is called for a URL only by a task
\* whose robots check of that URL has returned allowed=True and whose
\* throttle wait has ended; no page is fetched before the robots info of its
\* origin is cached, and no page the robots forbid is fetched.
C28_FetchOrder ==
    /\ [][\A t \in Tasks :
              task[t].pc # "arun" /\ task'[t].pc = "arun" =>
                  /\ task[t].pc = "throttle"
                  /\ rcall[t].pc = "done"
                  /\ rcall[t].url = task[t].url
                  /\ rcall[t].result.allowed
                  /\ domain_key(task[t].url) \in DOMAIN cache
                  /\ fetched' = Bump(fetched, task[t].url)]_vars
    /\ [](\A url \in DOMAIN fetched :
              /\ url \notin denied
              /\ domain_key(url) \in DOMAIN cache
              /\ can_fetch(cache[domain_key(url)], url))

\* a page is being fetched under a robots.txt that forbids /private, after
\* its task waited for the download its sibling had started; the sibling was
\* refused
C28_Witness ==
    /\ task[2].pc = "arun"
    /\ rcall[2].waited
    /\ cache[domain_key(task[2].url)].raw_text = TextPrivate
    /\ task[1].pc = "finished"
    /\ task[1].url \in denied
    /\ domain_key(task[1].url) = domain_key(task[2].url)

\* C30 (counter consistency): saved_pages + skipped_by_robots + failures
\* never exceeds attempted; a URL raises at most one of the three, and
\* failures at most once: the drain loop counts a failure for each task that
\* raised, and such a task has counted nothing itself; no counter decreases.
C30_CounterConsistency ==
    /\ [](stats.saved_pages + stats.skipped_by_robots + stats.failures
              <= stats.attempted)
    /\ [](\A t \in Tasks :
              /\ Len(task[t].counted) <= 1
              /\ task[t].outcome.kind = "exception" => task[t].counted = <<>>)
    /\ [][run_pc = "gather" /\ run_pc' = "drain" =>
              /\ stats'.failures = stats.failures + Cardinality(RaisedIn)
              /\ stats'.saved_pages = stats.saved_pages
              /\ stats'.skipped_by_robots = stats.skipped_by_robots]_vars
    /\ [][\A t \in Tasks :
              task'[t].counted # task[t].counted /\ task'[t].pc # "none" =>
                  stats'.saved_pages + stats'.skipped_by_robots + stats'.failures
                      = stats.saved_pages + stats.skipped_by_robots + stats.failures + 1]_vars
    /\ [][/\ stats'.attempted >= stats.attempted
          /\ stats'.saved_pages >= stats.saved_pages
          /\ stats'.skipped_by_robots >= stats.skipped_by_robots
          /\ stats'.failures >= stats.failures]_vars

\* every page attempted has raised one counter: one saved, one skipped, one
\* failed in its task and one failed by an exception the drain loop counted
C30_Witness ==
    /\ run_pc = "returned"
    /\ stats.attempted = 3
    /\ stats.saved_pages = 1
    /\ stats.skipped_by_robots = 1
    /\ stats.failures = 1


-----------------------------------------------------------------------------
(* The traversal of a page's tab groups (tab_traversal.py)                 *)
(*                                                                         *)
(* The page is what the browser answers: for each tablist its title (or an *)
(* exception of the title script), its tabs (or an exception of count()),  *)
(* and for each tab its inner text, what activating and reading it comes   *)
(* to, and the inner HTML of its panel.                                    *)

MaxGroups == 2

MaxTabs == 2

MaxPageTabs == 3

\* a call of the browser that raised instead of answering
Throws == "!raises"

\* the limits of a traversal: the defaults, and each ceiling binding in turn
TabSettingsChoices ==
    { [max_groups |-> 10, max_tabs_per_group |-> 5, max_total_tabs |-> 40],
      [max_groups |-> 1, max_tabs_per_group |-> 5, max_total_tabs |-> 40],
      [max_groups |-> 10, max_tabs_per_group |-> 1, max_total_tabs |-> 40],
      [max_groups |-> 10, max_tabs_per_group |-> 5, max_total_tabs |-> 1],
      [max_groups |-> 10, max_tabs_per_group |-> 5, max_total_tabs |-> 2] }

Tab(inner_text, activation, html) ==
    [inner_text |-> inner_text, activation |-> activation, html |-> html]

\* the tabs of the model: six that are captured, then a tab whose activation
\* times out, one whose activation or read raises, one whose inner_text
\* raises, one with a blank label and one with no panel
TabChoices ==
    { Tab("1", "ok", "<p>a</p>"), Tab("11", "ok", "<p>a</p>"),
      Tab("1", "ok", "<P>a</P> "), Tab("1", "ok", "<br>"),
      Tab("11", "ok", "<a href=x>"), Tab("1", "ok", "<bad>"),
      Tab("1", "timeout", "<p>a</p>"), Tab("1", "error", "<p>a</p>"),
      Tab(Throws, "ok", "<p>a</p>"), Tab(" ", "ok", "<p>a</p>"),
      Tab("1", "ok", "") }

TabLists == UNION {[1..n -> TabChoices] : n \in 1..MaxTabs}

TabGroup(title, count, tabs) == [title |-> title, count |-> count, tabs |-> tabs]

\* the tablists of the model: titled, with one tab at least
TitledGroups == {TabGroup(title, "ok", tabs) : title \in {"v", "v1"}, tabs \in TabLists}

\* a tablist whose title script raises, one with no title, one whose count()
\* raises and one without tabs
OddGroups ==
    { TabGroup(Throws, "ok", <<Tab("1", "ok", "<p>a</p>")>>),
      TabGroup(" ", "ok", <<Tab("11", "ok", "<p>a</p>")>>),
      TabGroup("v", "raises", <<Tab("1", "ok", "<p>a</p>")>>),
      TabGroup("v", "ok", <<>>) }

RECURSIVE TabsOn(_)
\* the number of tabs of a list of tablists
TabsOn(groups) ==
    IF groups = <<>> THEN 0 ELSE Len(Head(groups).tabs) + TabsOn(Tail(groups))

GroupLists ==
    { groups \in UNION {[1..n -> TitledGroups \cup OddGroups] : n \in 0..MaxGroups} :
          TabsOn(groups) <= MaxPageTabs }

TabPage(attach, settle, tablists, groups) ==
    [attach |-> attach, settle |-> settle, tablists |-> tablists, groups |-> groups]

\* the pages of the model: the traversal disabled or without a session, a
\* session whose page cannot be had, a page closed before the tablists are
\* looked for, a page whose tablists cannot be counted, and the pages that
\* answer
Pages ==
    { TabPage("disabled", "ok", "ok", <<>>), TabPage("no_page", "ok", "ok", <<>>),
      TabPage("ok", "raises", "ok", <<>>), TabPage("ok", "ok", "raises", <<>>) }
    \cup {TabPage("ok", "ok", "ok", groups) : groups \in GroupLists}

\* tab_traversal.py lines 205 and 210: range(groups)
GroupCount == Min(Len(dom.groups), tab_settings.max_groups)

\* tab_traversal.py line 211: tablists.nth(group_index)
Tablist(group_index) == dom.groups[group_index + 1]

\* tab_traversal.py lines 212-216
GroupTitle(tablist) ==
    IF tablist.title = Throws \/ Strip(tablist.title) = "" THEN "Tabs"
    ELSE Strip(tablist.title)

\* tab_traversal.py line 220
TabCount(tablist) == Min(Len(tablist.tabs), tab_settings.max_tabs_per_group)

\* tab_traversal.py lines 228-231
LabelOf(tab) == IF tab.inner_text = Throws THEN "" ELSE Strip(tab.inner_text)

\* str.strip().lower() on the panels of the model
NormalizedHtml(html) == IF html = "<P>a</P> " THEN "<p>a</p>" ELSE html

\* hash() on the normalized panels of the model, as decimal digits
HashDigits(normalized) ==
    CASE normalized = "<p>a</p>" -> "41"
      [] normalized = "<br>" -> "7"
      [] normalized = "<a href=x>" -> "23"
      [] OTHER -> "5"

\* TabTraversalManager._digest_html
_digest_html(html) ==
    IF NormalizedHtml(html) = "" THEN "" ELSE HashDigits(NormalizedHtml(html))

TabCapture(group_title, tab_label, html, index, group_index) ==
    [group_title |-> group_title, tab_label |-> tab_label, html |-> html,
     index |-> index, group_index |-> group_index, text_digest |-> _digest_html(html)]

\* the loop of a group ends at the first tab that fails
TabSkipped_breaks(w) == [w EXCEPT !.tab_index = MaxTabs + 1]

\* `continue` in the loop of a group
TabSkipped(w) == [w EXCEPT !.tab_index = @ + 1]

\* tab_traversal.py lines 250-260
TabCaptured(w, tab) ==
    [w EXCEPT !.tab_index = @ + 1,
              !.total_collected = @ + 1,
              !.captures = Append(@, TabCapture(w.group_title, LabelOf(tab), tab.html,
                                                w.tab_index, w.group_index))]

\* tab_traversal.py lines 227-260: one pass of the loop over the tabs
AfterTab(w, tab) ==
    IF LabelOf(tab) = "" THEN TabSkipped(w)
    ELSE IF tab.activation # "ok" THEN TabSkipped(w)
    ELSE IF tab.html = "" THEN TabSkipped(w)
    ELSE TabCaptured(w, tab)


\* what crawler.aprocess_html makes of the wrapped panels of the model: the
\* raw markdown ("" for none) and the hrefs of the links, or an exception
aprocess_html(html) ==
    CASE html \in {"<p>a</p>", "<P>a</P> "} ->
             [raised |-> FALSE, markdown |-> "a", links |-> <<>>]
      [] html = "<br>" -> [raised |-> FALSE, markdown |-> " ", links |-> <<>>]
      [] html = "<a href=x>" -> [raised |-> FALSE, markdown |-> "", links |-> <<"x">>]
      [] OTHER -> [raised |-> TRUE, markdown |-> "", links |-> <<>>]

\* TabTraversalManager._html_fragment_to_markdown
_html_fragment_to_markdown(html) ==
    IF aprocess_html(html).raised THEN [markdown |-> "", links |-> <<>>]
    ELSE [markdown |-> aprocess_html(html).markdown, links |-> aprocess_html(html).links]

\* tab_traversal.py line 82
digest_key(capture) == capture.group_title \o capture.tab_label \o capture.text_digest

\* tab_traversal.py lines 96-105
BlockOf(capture, markdown, links) ==
    [group_title |-> capture.group_title, tab_label |-> capture.tab_label,
     markdown_text |-> markdown, index |-> capture.index,
     group_index |-> capture.group_index, links |-> links]

\* `continue` in the loop over the captures
CaptureDropped(c, why) == [c EXCEPT !.next = @ + 1, !.fate = Append(@, why)]

\* tab_traversal.py lines 87-105: the conversion of a capture that is new
Converted(c, capture) ==
    IF /\ Strip(_html_fragment_to_markdown(capture.html).markdown) = ""
       /\ _html_fragment_to_markdown(capture.html).links = <<>>
    THEN CaptureDropped(c, "empty")
    ELSE [c EXCEPT !.next = @ + 1,
                   !.fate = Append(@, "block"),
                   !.blocks = Append(@, BlockOf(capture,
                                  Strip(_html_fragment_to_markdown(capture.html).markdown),
                                  _html_fragment_to_markdown(capture.html).links))]

\* tab_traversal.py lines 81-105: one pass of the loop over the captures
AfterCapture(c, capture) ==
    IF digest_key(capture) \in c.seen THEN CaptureDropped(c, "duplicate")
    ELSE Converted([c EXCEPT !.seen = @ \cup {digest_key(capture)}], capture)

\* what the traversal leaves alone
TabsFrame == UNCHANGED <<base_markdown, blocks, merged, qvars, rvars, tvars, ovars>>

TabsStart ==
    /\ tab_settings \in TabSettingsChoices
    /\ dom \in Pages
    /\ walk = NotWalking
    /\ conv = NotConverting
    /\ base_markdown = <<>>
    /\ blocks = <<>>
    /\ merged = <<>>
    /\ QueueUnused
    /\ RobotsInit
    /\ ThrottleInit(DefaultDelay)
    /\ RunUnused

\* tab_traversal.py lines 68-75: collect_markdown_blocks is called; it returns
\* [] when disabled, without a session or without a page
Attach ==
    /\ conv.pc = "idle"
    /\ IF dom.attach = "ok"
       THEN /\ conv' = [conv EXCEPT !.pc = "collecting"]
            /\ walk' = [walk EXCEPT !.pc = "settle"]
       ELSE /\ conv' = [conv EXCEPT !.pc = "returned"]
            /\ walk' = walk
    /\ UNCHANGED <<tab_settings, dom>>
    /\ TabsFrame

\* tab_traversal.py lines 195-207: the page settles (a failure of the wait for
\* the load state is passed over, one of wait_for_timeout is not) and the
\* tablists are counted
Settle ==
    /\ walk.pc = "settle"
    /\ IF dom.settle = "raises"
       THEN /\ walk' = [walk EXCEPT !.pc = "raised"]
            /\ conv' = [conv EXCEPT !.pc = "raised"]
       ELSE IF dom.tablists = "raises"
       THEN /\ walk' = [walk EXCEPT !.pc = "done"]
            /\ conv' = conv
       ELSE /\ walk' = [walk EXCEPT !.pc = "group"]
            /\ conv' = conv
    /\ UNCHANGED <<tab_settings, dom>>
    /\ TabsFrame

\* tab_traversal.py lines 210-222: the next tablist, its title and its tabs
EnterGroup ==
    /\ walk.pc = "group"
    /\ walk' =
         IF walk.group_index >= GroupCount THEN [walk EXCEPT !.pc = "done"]
         ELSE IF Tablist(walk.group_index).count = "raises"
         THEN [walk EXCEPT !.group_index = @ + 1,
                           !.group_title = GroupTitle(Tablist(walk.group_index))]
         ELSE [walk EXCEPT !.pc = "tab", !.tab_index = 0,
                           !.group_title = GroupTitle(Tablist(walk.group_index))]
    /\ UNCHANGED <<tab_settings, dom, conv>>
    /\ TabsFrame

\* tab_traversal.py lines 224-260: the next tab is read, activated and captured
VisitTab ==
    /\ walk.pc = "tab"
    /\ walk.tab_index < TabCount(Tablist(walk.group_index))
    /\ walk.total_collected < tab_settings.max_total_tabs
    /\ walk' = AfterTab(walk, Tablist(walk.group_index).tabs[walk.tab_index + 1])
    /\ UNCHANGED <<tab_settings, dom, conv>>
    /\ TabsFrame

\* tab_traversal.py lines 224-226 and 262-263: the loop of the group ends, and
\* the loop of the groups with it once max_total_tabs captures are made
LeaveGroup ==
    /\ walk.pc = "tab"
    /\ \/ walk.tab_index >= TabCount(Tablist(walk.group_index))
       \/ walk.total_collected >= tab_settings.max_total_tabs
    /\ walk' =
         IF walk.total_collected >= tab_settings.max_total_tabs
         THEN [walk EXCEPT !.pc = "done"]
         ELSE [walk EXCEPT !.pc = "group", !.group_index = @ + 1]
    /\ UNCHANGED <<tab_settings, dom, conv>>
    /\ TabsFrame

\* tab_traversal.py lines 75-80: _collect_tab_content has returned
Collected ==
    /\ conv.pc = "collecting"
    /\ walk.pc = "done"
    /\ walk' = [walk EXCEPT !.pc = "returned"]
    /\ conv' = [conv EXCEPT !.pc = IF walk.captures = <<>> THEN "returned" ELSE "convert"]
    /\ UNCHANGED <<tab_settings, dom>>
    /\ TabsFrame

\* tab_traversal.py lines 81-105: the next capture is converted or dropped
ConvertCapture ==
    /\ conv.pc = "convert"
    /\ conv.next <= Len(walk.captures)
    /\ conv' = AfterCapture(conv, walk.captures[conv.next])
    /\ UNCHANGED <<tab_settings, dom, walk>>
    /\ TabsFrame

\* tab_traversal.py lines 107-109: the blocks are returned
ReturnBlocks ==
    /\ conv.pc = "convert"
    /\ conv.next > Len(walk.captures)
    /\ conv' = [conv EXCEPT !.pc = "returned"]
    /\ UNCHANGED <<tab_settings, dom, walk>>
    /\ TabsFrame

TabsNext ==
    \/ Attach
    \/ Settle
    \/ EnterGroup
    \/ VisitTab
    \/ LeaveGroup
    \/ Collected
    \/ ConvertCapture
    \/ ReturnBlocks

SpecTabs == TabsStart /\ [][TabsNext]_vars


-----------------------------------------------------------------------------
(* Properties of the traversal                                             *)

\* the tabs the traversal may visit: those of the tablists within max_groups
\* whose tabs can be counted, within max_tabs_per_group
TabsInReach ==
    { p \in (0..(MaxGroups - 1)) \X (0..(MaxTabs - 1)) :
          /\ p[1] < GroupCount
          /\ Tablist(p[1]).count = "ok"
          /\ p[2] < TabCount(Tablist(p[1])) }

TabAt(p) == Tablist(p[1]).tabs[p[2] + 1]

\* a tab that has a label, activates, and has a panel
Capturable(p) ==
    /\ LabelOf(TabAt(p)) # ""
    /\ TabAt(p).activation = "ok"
    /\ TabAt(p).html # ""

\* p comes before q on the page
ComesBefore(p, q) == p[1] < q[1] \/ (p[1] = q[1] /\ p[2] < q[2])

CapturableBefore(p) ==
    Cardinality({q \in TabsInReach : Capturable(q) /\ ComesBefore(q, p)})

\* the positions of the captures made
CapturedAt ==
    {<<walk.captures[k].group_index, walk.captures[k].index>> : k \in DOMAIN walk.captures}

\* the traversal is over, and it went through the tablists
WalkedThrough ==
    /\ walk.pc \in {"done", "returned"}
    /\ dom.tablists = "ok"

\* C31: a tab that cannot be read or activated (its inner_text raises, its
\* activation times out or raises, its panel is missing) is passed over and
\* nothing else: once the traversal is over, the captures are exactly the tabs
\* in reach that can be captured, in page order, up to max_total_tabs of them,
\* whatever tabs failed in between; no step of the traversal loses a capture,
\* and no step taken among the tabs makes collect_markdown_blocks raise
C31_TabIsolation ==
    /\ [](WalkedThrough =>
            /\ CapturedAt = { p \in TabsInReach :
                                /\ Capturable(p)
                                /\ CapturableBefore(p) < tab_settings.max_total_tabs }
            /\ \A j, k \in DOMAIN walk.captures :
                   j < k => ComesBefore(<<walk.captures[j].group_index, walk.captures[j].index>>,
                                        <<walk.captures[k].group_index, walk.captures[k].index>>))
    /\ [][/\ IsPrefix(walk.captures, walk'.captures)
          /\ walk.pc \in {"group", "tab"} => (walk'.pc # "raised" /\ conv'.pc # "raised")]_vars

\* collect_markdown_blocks has returned blocks of a page whose first tab timed
\* out or raised when it was activated, with a capture of the next tab of the
\* same tablist and one of the first tab of the next tablist
C31_Witness ==
    /\ conv.pc = "returned"
    /\ conv.blocks # <<>>
    /\ Len(dom.groups) = 2
    /\ Len(dom.groups[1].tabs) = 2
    /\ dom.groups[1].tabs[1].activation \in {"timeout", "error"}
    /\ <<0, 1>> \in CapturedAt
    /\ <<1, 0>> \in CapturedAt


\* two captures with the same group title, tab label and content digest
SameCapture(a, b) ==
    /\ a.group_title = b.group_title
    /\ a.tab_label = b.tab_label
    /\ a.text_digest = b.text_digest

\* the conversion of a capture yields neither markdown nor links
EmptyConversion(capture) ==
    /\ Strip(_html_fragment_to_markdown(capture.html).markdown) = ""
    /\ _html_fragment_to_markdown(capture.html).links = <<>>

\* C32: once collect_markdown_blocks has gone through the captures of a page,
\* a capture was dropped as a duplicate if and only if an earlier capture of
\* the page has the same group title, the same tab label and the same content
\* digest; every other capture was converted, and it gave a block unless its
\* conversion yielded neither markdown nor links
C32_Dedup ==
    conv.pc = "returned" /\ walk.captures # <<>> =>
        /\ Len(conv.fate) = Len(walk.captures)
        /\ \A k \in DOMAIN walk.captures :
               /\ conv.fate[k] = "duplicate" <=>
                      \E j \in 1..(k - 1) : SameCapture(walk.captures[j], walk.captures[k])
               /\ conv.fate[k] = "empty" =>
                      EmptyConversion(walk.captures[k])
               /\ conv.fate[k] = "block" =>
                      ~EmptyConversion(walk.captures[k])

=============================================================================
